---- MODULE Spec2Model ----
(***************************************************************************)
(* Scan orchestration and finding-intelligence pipeline of the scanner     *)
(* backend: run_scan_pipeline (scan_pipeline.py) with the services it      *)
(* sequences - RepoFetcher.clone, SemgrepRunner.scan, AITriageEngine,      *)
(* FindingAggregator, DependencyScanner, DASTRunner, correlate_findings -  *)
(* and the persisted Scan / Finding rows.                                  *)
(*                                                                         *)
(* Representation choices:                                                 *)
(*  - a text (rule id + message, template id + name + description, the     *)
(*    exploitability sentence) is the set of the vocabulary phrases that   *)
(*    occur in it; `k in text` is TermIn(k, text), which also knows the    *)
(*    substring pairs of the vocabulary;                                   *)
(*  - a confidence is an integer number of hundredths (0..100);            *)
(*  - lower() is the table Lower on the phrases of the vocabulary;          *)
(*  - None is the string "None" for text fields and -1 for priority_score. *)
(***************************************************************************)
EXTENDS Integers, Sequences, FiniteSets, TLC

VARIABLES
    pc,                   \* position inside run_scan_pipeline
    scan_type,            \* argument scan_type, lower-cased
    repo_url,             \* argument repo_url ("None" when absent)
    target_url,           \* target_url or scan.target_url ("None" when absent)
    branch,               \* local variable branch
    scan,                 \* the persisted Scan row
    emitted,              \* sio.emit calls made so far, in order
    exc,                  \* message of the exception caught by `except Exception`
    repo_path,            \* local variable repo_path (0 is None)
    tmpdirs,              \* temporary directories that exist on disk
    made,                 \* number of tempfile.mkdtemp calls so far
    cleanups,             \* paths RepoFetcher.cleanup was called with, in order
    raw_findings,         \* SemgrepRunner.scan result
    contexts,             \* ContextExtractor.extract results
    triaged,              \* list of TriagedFinding
    dast_findings,        \* list of DynamicFinding
    dependency_findings,  \* list of DependencyFinding
    unmatched_dast,       \* second component of correlate_findings' result
    session,              \* db session: rows added (pending) and committed
    tools,                \* outcome of the dynamic and dependency-CVE tools
    stages,               \* stages of the run that have completed
    git,                  \* what git answered inside RepoFetcher.clone
    tasks,                \* the triage_finding tasks of triage_batch
    permits,              \* value of AITriageEngine.semaphore
    index,                \* the similarity index behind PineconeService
    calls,                \* the FindingAggregator.process calls under way
    health                \* one dependency under DependencyHealthScanner

vars == <<pc, scan_type, repo_url, target_url, branch, scan, emitted, exc,
          repo_path, tmpdirs, made, cleanups, raw_findings, contexts, triaged,
          dast_findings, dependency_findings, unmatched_dast, session, tools,
          stages, git, tasks, permits, index, calls, health>>

None == "None"

\* ------------------------------------------------------------------------
\* Bounds of the model
\* ------------------------------------------------------------------------
MaxSast == 2
MaxDast == 2
MaxDeps == 1
\* Largest number of findings handed to one triage_batch call.
MaxBatch == 5
\* Largest number of static findings handed to correlate_findings when the
\* dynamic findings vary over CorrelateTemplates.
MaxCorrelate == 1
\* Largest number of findings handed to one FindingAggregator.process call.
MaxAggregate == 2
\* Largest major version number of the registry's version texts.
MaxMajor == 3

Max(a, b) == IF a >= b THEN a ELSE b
Min(a, b) == IF a <= b THEN a ELSE b

SeqsUpTo(S, n) == UNION {[1..k -> S] : k \in 0..n}

\* ------------------------------------------------------------------------
\* Texts: `term in text`
\* ------------------------------------------------------------------------
\* str.lower() on the phrases of the vocabulary.
Lower(p) ==
    CASE p = "SQL Injection" -> "sql injection"
      [] p = "Cross-Site Scripting" -> "cross-site scripting"
      [] p = "CWE-89" -> "cwe-89"
      [] p = "CWE-79" -> "cwe-79"
      [] p = "Remote" -> "remote"
      [] p = "HIGH" -> "high"
      [] p = "CWE-352" -> "cwe-352"
      [] p = "Security" -> "security"
      [] p = "Release is yanked on PyPI." -> "release is yanked on pypi."
      [] p = "Project marked inactive in PyPI classifiers."
            -> "project marked inactive in pypi classifiers."
      [] OTHER -> p

TextLower(text) == {Lower(p) : p \in text}

\* <<t, p>>: the term t is a proper substring of the vocabulary phrase p.
SubstringPairs ==
    { <<"authenticated", "unauthenticated">>,
      <<"sql", "sql injection">>,
      <<"injection", "sql injection">>,
      <<"sql", "semgrep.sql-injection">>,
      <<"injection", "semgrep.sql-injection">>,
      <<"sql", "sqli-error-based">>,
      <<"sqli", "sqli-error-based">>,
      <<"sql", "sqli">>,
      <<"xss", "semgrep.xss">>,
      <<"xss", "reflected-xss">>,
      <<"cross-site", "cross-site scripting">>,
      <<"scripting", "cross-site scripting">> }

\* `term in text` for a text already lower-cased.
TermIn(term, text) ==
    \E p \in text : p = term \/ <<term, p>> \in SubstringPairs

AnyTermIn(terms, text) == \E t \in terms : TermIn(t, text)

\* ------------------------------------------------------------------------
\* FindingAggregator.calculate_priority (finding_aggregator.py:80-118)
\* ------------------------------------------------------------------------
\* Mutant of SeverityWeight: high weighs as much as critical.
SeverityWeightHighAsCritical(sev) ==
    CASE sev = "critical" -> 90
      [] sev = "high"     -> 90
      [] sev = "medium"   -> 55
      [] sev = "low"      -> 35
      [] sev = "info"     -> 10
      [] OTHER            -> 30

SeverityWeight(sev) ==
    CASE sev = "critical" -> 90
      [] sev = "high"     -> 75
      [] sev = "medium"   -> 55
      [] sev = "low"      -> 35
      [] sev = "info"     -> 10
      [] OTHER            -> 30

NegativeTerms == {"not exploitable", "unlikely", "false positive"}
PositiveTerms == {"remote", "arbitrary", "unauthenticated"}
AuthTerms == {"requires authentication", "authenticated", "admin only",
              "local only", "user interaction"}

\* round(n / d) for d > 0 as Python 3 rounds: ties go to the even integer.
RoundHalfEven(n, d) ==
    LET a == IF n < 0 THEN -n ELSE n
        q == a \div d
        r == a % d
        m == IF 2 * r > d THEN q + 1
             ELSE IF 2 * r < d THEN q
             ELSE IF q % 2 = 0 THEN q ELSE q + 1
    IN IF n < 0 THEN -m ELSE m

\* `finding.ai_confidence or 0.5`, in hundredths.
EffectiveConfidence(c) == IF c = 0 THEN 50 ELSE c

\* The score before rounding, times 200 (so that it stays an integer).
RawScore200(f) ==
    LET base == SeverityWeight(f.ai_severity)
        confidence == EffectiveConfidence(f.ai_confidence)
        scaled == base * (100 + Max(0, Min(confidence, 100)))
        exploitability == TextLower(f.exploitability)
        adj == (IF AnyTermIn(NegativeTerms, exploitability) THEN -15 ELSE 0)
             + (IF AnyTermIn(PositiveTerms, exploitability) THEN 10 ELSE 0)
             + (IF AnyTermIn(AuthTerms, exploitability) THEN -10 ELSE 0)
             + (IF confidence < 35 THEN -10 ELSE 0)
             + (IF f.is_test_file \/ f.is_generated THEN -25 ELSE 0)
             + (IF f.confirmed_exploitable THEN 15 ELSE 0)
    IN scaled + 200 * adj

\* Mutant of calculate_priority: the clamp to [0, 100] is missing.
calculate_priority_unclamped(f) == RoundHalfEven(RawScore200(f), 200)

calculate_priority(f) == Max(0, Min(100, RoundHalfEven(RawScore200(f), 200)))

\* ------------------------------------------------------------------------
\* Severity-to-score tables of the orchestrator (scan_pipeline.py:358-404)
\* ------------------------------------------------------------------------
\* (value or "").lower(): the runners hand over severities already lower-cased
\* (dast_runner.py:94, dependency_scanner.py:70), and Lower leaves them alone.
_normalize_dast_severity(value) ==
    LET normalized == Lower(value)
    IN IF normalized \in {"critical", "high"} THEN "ERROR"
       ELSE IF normalized \in {"medium", "moderate"} THEN "WARNING"
       ELSE "INFO"

_normalize_ai_severity(value) ==
    LET normalized == Lower(value)
    IN IF normalized \in {"critical", "high", "medium", "low", "info"}
       THEN normalized ELSE "info"

_priority_from_dast(value) ==
    LET normalized == Lower(value)
    IN CASE normalized = "critical" -> 95
         [] normalized = "high"     -> 80
         [] normalized = "medium"   -> 60
         [] normalized = "moderate" -> 55
         [] normalized = "low"      -> 40
         [] normalized = "info"     -> 15
         [] OTHER                   -> 35

\* cvss_score in tenths; -1 is None.
_priority_from_dependency(value, cvss_score) ==
    IF cvss_score # -1
    THEN IF cvss_score >= 90 THEN 95
         ELSE IF cvss_score >= 70 THEN 80
         ELSE IF cvss_score >= 40 THEN 55
         ELSE 35
    ELSE _priority_from_dast(value)

\* ------------------------------------------------------------------------
\* Correlation engine (correlation.py)
\* ------------------------------------------------------------------------
KeywordGroups ==
    { {"sql", "sqli", "injection"},
      {"xss", "cross-site", "cross site", "scripting"},
      {"rce", "command", "exec", "eval", "code execution", "command injection"},
      {"ssrf", "server-side request", "server side request", "request forgery"},
      {"path traversal", "directory traversal", "zip slip"},
      {"lfi", "rfi", "file inclusion", "local file inclusion"},
      {"xxe", "xml external entity"},
      {"csrf", "cross-site request forgery", "cross site request forgery"},
      {"ssti", "template injection", "server-side template"},
      {"deserialization", "deserialize", "unserialize", "pickle", "yaml load"},
      {"open redirect", "open-redirect", "unvalidated redirect"},
      {"auth bypass", "authentication bypass", "authorization bypass",
       "privilege escalation", "broken access control"},
      {"idor", "insecure direct object reference"} }

_keyword_match(sast_text, dast_text) ==
    \E keywords \in KeywordGroups :
        AnyTermIn(keywords, sast_text) /\ AnyTermIn(keywords, dast_text)

\* group(1) of re.search(r"cwe[-_]?(\d+)", value, re.IGNORECASE) on a phrase of
\* the vocabulary, None when the phrase mentions no CWE.
CweDigits(p) ==
    CASE p \in {"CWE-89", "cwe-89", "cwe_89", "rules.cwe-89.tainted-sql"} -> "89"
      [] p \in {"CWE-79", "cwe-79"} -> "79"
      [] p \in {"CWE-352", "cwe-352"} -> "352"
      [] OTHER -> None

\* f"cwe-{digits}".lower()
CweName(digits) ==
    CASE digits = "89" -> "cwe-89"
      [] digits = "79" -> "cwe-79"
      [] OTHER -> "cwe-352"

\* _extract_cwe on a text given as its set of phrases (at most one of them
\* mentions a CWE, so the first mention is that one).
_extract_cwe(text) ==
    LET mentions == {p \in text : CweDigits(p) # None}
    IN IF mentions = {} THEN None
       ELSE CweName(CweDigits(CHOOSE p \in mentions : TRUE))

\* Mutant of _find_match: the CWE criterion is tried on the whole list before
\* the keyword criterion.
_find_match_cwe_first(sast, dast) ==
    LET cwe_of_id == _extract_cwe({sast.rule_id})
        sast_cwe == IF cwe_of_id # None THEN cwe_of_id
                    ELSE _extract_cwe(sast.rule_message)
        sast_text == TextLower({sast.rule_id} \cup sast.rule_message)
        dast_text(j) == TextLower({dast[j].template_id} \cup dast[j].template_name
                                  \cup dast[j].description)
        cwe_hits == {j \in 1..Len(dast) :
                        /\ sast_cwe # None
                        /\ \E k \in 1..Len(dast[j].cwe_ids) :
                               sast_cwe = Lower(dast[j].cwe_ids[k])}
        keyword_hits == {j \in 1..Len(dast) : _keyword_match(sast_text, dast_text(j))}
        hits == IF cwe_hits # {} THEN cwe_hits ELSE keyword_hits
    IN IF hits = {} THEN 0
       ELSE CHOOSE j \in hits : \A k \in hits : j <= k

\* Index in dast_findings of the finding _find_match returns, 0 for None.
_find_match(sast, dast) ==
    LET cwe_of_id == _extract_cwe({sast.rule_id})
        sast_cwe == IF cwe_of_id # None THEN cwe_of_id
                    ELSE _extract_cwe(sast.rule_message)
        sast_text == TextLower({sast.rule_id} \cup sast.rule_message)
        hit(j) ==
            LET d == dast[j]
                dast_text == TextLower({d.template_id} \cup d.template_name
                                       \cup d.description)
            IN \/ /\ sast_cwe # None
                  /\ \E k \in 1..Len(d.cwe_ids) : sast_cwe = Lower(d.cwe_ids[k])
               \/ _keyword_match(sast_text, dast_text)
        hits == {j \in 1..Len(dast) : hit(j)}
    IN IF hits = {} THEN 0
       ELSE CHOOSE j \in hits : \A k \in hits : j <= k

\* Mutant of ApplyMatch: the boosted confidence is not capped.
ApplyMatchUncapped(finding, m) ==
    [finding EXCEPT
        !.confirmed_exploitable = TRUE,
        !.is_false_positive = FALSE,
        !.ai_confidence = finding.ai_confidence + 20,
        !.dast_matched_at = m.matched_at,
        !.dast_endpoint = m.endpoint,
        !.dast_curl_command = m.curl_command,
        !.dast_evidence = m.evidence,
        !.dast_cve_ids = m.cve_ids,
        !.dast_cwe_ids = m.cwe_ids]

\* The static finding after a match with the dynamic finding m.
ApplyMatch(finding, m) ==
    [finding EXCEPT
        !.confirmed_exploitable = TRUE,
        !.is_false_positive = FALSE,
        !.ai_confidence = Min(100, finding.ai_confidence + 20),
        !.dast_matched_at = m.matched_at,
        !.dast_endpoint = m.endpoint,
        !.dast_curl_command = m.curl_command,
        !.dast_evidence = m.evidence,
        !.dast_cve_ids = m.cve_ids,
        !.dast_cwe_ids = m.cwe_ids]

\* template ids of the dynamic findings selected for some static finding.
MatchedTemplates(sast, dast) ==
    {dast[_find_match(sast[i], dast)].template_id :
        i \in {k \in 1..Len(sast) : _find_match(sast[k], dast) # 0}}

UnmatchedDast(sast, dast) ==
    SelectSeq(dast, LAMBDA item : item.template_id \notin MatchedTemplates(sast, dast))

\* correlate_findings: <<sast_findings after the loop, unmatched_dast>>.
correlate_findings(sast, dast) ==
    << [i \in 1..Len(sast) |->
            IF _find_match(sast[i], dast) = 0 THEN sast[i]
            ELSE ApplyMatch(sast[i], dast[_find_match(sast[i], dast)])],
       UnmatchedDast(sast, dast) >>

\* ------------------------------------------------------------------------
\* AI triage (ai_triage.py)
\* ------------------------------------------------------------------------
\* Mutant of _normalize_severity: the tool-native severity is not consulted.
_normalize_severity_ignores_tool(ai_severity, semgrep_severity) ==
    IF Lower(ai_severity) \in {"critical", "high", "medium", "low", "info"}
    THEN Lower(ai_severity)
    ELSE "medium"

\* semgrep_severity.upper() leaves the severities of SemgrepRunner alone: they
\* are upper-cased when parsed (semgrep_runner.py:139).
_normalize_severity(ai_severity, semgrep_severity) ==
    IF Lower(ai_severity) \in {"critical", "high", "medium", "low", "info"}
    THEN Lower(ai_severity)
    ELSE IF semgrep_severity = "ERROR" THEN "high"
    ELSE IF semgrep_severity = "WARNING" THEN "medium"
    ELSE "low"

\* Mutant of _apply_context_adjustments: medium is not demoted.
_apply_context_adjustments_keeps_medium(severity, context, is_false_positive) ==
    IF is_false_positive THEN "info"
    ELSE IF (context.is_test_file \/ context.is_generated)
            /\ severity \in {"critical", "high"} THEN "low"
    ELSE severity

_apply_context_adjustments(severity, context, is_false_positive) ==
    IF is_false_positive THEN "info"
    ELSE IF (context.is_test_file \/ context.is_generated)
            /\ severity \in {"critical", "high", "medium"} THEN "low"
    ELSE severity

FallbackReasoning ==
    "LLM response was unavailable or invalid; fallback to Semgrep severity."
DefaultExploitability == {"Not enough context to determine exploitability."}

\* Values of the "confidence" key that are not a number of hundredths:
\* JsonNotNumeric stands for a value float() rejects with TypeError or
\* ValueError (null, "high", a list), JsonHugeInt for an integer literal beyond
\* the range of float, on which float() raises OverflowError.
JsonNotNumeric == -1000
JsonHugeInt == 1000000

\* str(exc) of that OverflowError.
ConfidenceOverflow == "int too large to convert to float"

\* _parse_confidence, in hundredths: [raised, value].
_parse_confidence(value) ==
    IF value = JsonHugeInt THEN [raised |-> TRUE, value |-> 0]
    ELSE IF value = JsonNotNumeric THEN [raised |-> FALSE, value |-> 50]
    ELSE [raised |-> FALSE, value |-> Max(0, Min(value, 100))]

\* triage_finding raises: only _parse_confidence can, on a parsed response.
triage_raises(response) ==
    response.parsed /\ _parse_confidence(response.confidence).raised

\* An LLM response after _parse_response: parsed says whether a JSON object
\* was found; the other fields are the values of its keys ("" / {} when the
\* key is missing).
triage_finding(finding, context, response) ==
    LET parsed == response.parsed
        is_false_positive == IF parsed THEN response.is_false_positive ELSE FALSE
        sev0 == _normalize_severity(
                    IF parsed THEN response.adjusted_severity ELSE "",
                    finding.severity)
        ai_confidence == IF parsed THEN _parse_confidence(response.confidence).value
                         ELSE 20
        reasoning0 == IF parsed THEN response.reasoning ELSE ""
        expl0 == IF parsed THEN response.exploitability ELSE {}
    IN [rule_id |-> finding.rule_id,
        rule_message |-> finding.rule_message,
        semgrep_severity |-> finding.severity,
        file_path |-> finding.file_path,
        is_test_file |-> context.is_test_file,
        is_generated |-> context.is_generated,
        is_false_positive |-> is_false_positive,
        ai_severity |-> _apply_context_adjustments(sev0, context, is_false_positive),
        ai_confidence |-> ai_confidence,
        ai_reasoning |-> IF reasoning0 = "" THEN FallbackReasoning ELSE reasoning0,
        exploitability |-> IF expl0 = {} THEN DefaultExploitability ELSE expl0,
        priority_score |-> -1,
        confirmed_exploitable |-> FALSE,
        dast_matched_at |-> None,
        dast_endpoint |-> None,
        dast_curl_command |-> None,
        dast_evidence |-> <<>>,
        dast_cve_ids |-> <<>>,
        dast_cwe_ids |-> <<>>]

\* AITriageEngine.__init__: max_concurrency, the initial value of the semaphore.
max_concurrency == 3

\* The keys of the JSON object of an LLM answer, and the value _parse_response
\* hands back when there is none.
NoData ==
    [is_false_positive |-> FALSE, adjusted_severity |-> "", confidence |-> 50,
     reasoning |-> "", exploitability |-> {}]

\* A text the LLM returns, by what _parse_response can tell of it: "empty"
\* (""), "prose" (no brace), "reversed" (the last "}" is before the first "{"),
\* "broken" (braces around something json.loads rejects), "json" (a JSON
\* object, possibly inside prose) with the values of its keys.
EmptyText == [kind |-> "empty", data |-> NoData]
JsonText(data) == [kind |-> "json", data |-> data]
UnparsableTexts ==
    {[kind |-> k, data |-> NoData] : k \in {"empty", "prose", "reversed", "broken"}}

\* What llm_client.generate does with one prompt: "returned" a text, "raised",
\* or "timeout" (no answer within timeout_seconds).
Returned(text) == [outcome |-> "returned", text |-> text]
FailedReplies == {[outcome |-> o, text |-> EmptyText] : o \in {"raised", "timeout"}}
NoReply == [outcome |-> "pending", text |-> EmptyText]

\* _call_llm: the text generate returned, "" when it raised or timed out.
_call_llm(reply) ==
    IF reply.outcome = "returned" THEN reply.text ELSE EmptyText

\* _parse_response: (data, parsed) as one record.
_parse_response(text) ==
    IF text.kind = "json"
    THEN [parsed |-> TRUE,
          is_false_positive |-> text.data.is_false_positive,
          adjusted_severity |-> text.data.adjusted_severity,
          confidence |-> text.data.confidence,
          reasoning |-> text.data.reasoning,
          exploitability |-> text.data.exploitability]
    ELSE [parsed |-> FALSE,
          is_false_positive |-> NoData.is_false_positive,
          adjusted_severity |-> NoData.adjusted_severity,
          confidence |-> NoData.confidence,
          reasoning |-> NoData.reasoning,
          exploitability |-> NoData.exploitability]

\* triage_finding from the LLM call on: lines 30-76.
triage_reply(finding, context, reply) ==
    triage_finding(finding, context, _parse_response(_call_llm(reply)))

\* ------------------------------------------------------------------------
\* FindingAggregator.process (finding_aggregator.py:20-78), as the pipeline
\* uses it: the returned list is dropped, the findings keep the priority_score
\* written on them. dups: the positions the similarity index reports as
\* duplicates (score >= duplicate_threshold), which _deduplicate drops.
\* ------------------------------------------------------------------------
_filter_false_positives(findings) ==
    {i \in 1..Len(findings) : ~findings[i].is_false_positive}

process(findings, dups) ==
    [i \in 1..Len(findings) |->
        IF i \in _filter_false_positives(findings) \ dups
        THEN [findings[i] EXCEPT !.priority_score = calculate_priority(findings[i])]
        ELSE findings[i]]

\* ------------------------------------------------------------------------
\* The similarity index (integrations/pinecone_client.py)
\* ------------------------------------------------------------------------
\* service: _get_pinecone() returned a PineconeService (FALSE: it returned
\* None); patterns: the texts upsert_pattern has stored in databug-patterns.
EmptyIndex == [service |-> TRUE, patterns |-> {}]

\* No dependency has been handed to the dependency-health scanner.
NotEvaluated == [phase |-> "not evaluated"]

\* ------------------------------------------------------------------------
\* Inputs of a run: what the tools and services can hand back
\* ------------------------------------------------------------------------
RequestedBranch == "release"

RawFindings ==
    { [rule_id |-> "semgrep.sql-injection", rule_message |-> {"SQL Injection"},
       severity |-> "ERROR", file_path |-> "app/db.py"] }

\* ContextExtractor.extract: the flags of the file the finding is in.
extract(finding) ==
    [is_test_file |-> finding.file_path = "tests/test_views.py",
     is_generated |-> FALSE]

LLMResponses ==
    { [parsed |-> TRUE, is_false_positive |-> TRUE, adjusted_severity |-> "high",
       confidence |-> 90, reasoning |-> "sanitised upstream",
       exploitability |-> {"unlikely"}],
      [parsed |-> TRUE, is_false_positive |-> FALSE, adjusted_severity |-> "high",
       confidence |-> 60, reasoning |-> "user input reaches the query",
       exploitability |-> {"Remote"}] }

\* The keys of a parsed answer.
DataOf(response) ==
    [is_false_positive |-> response.is_false_positive,
     adjusted_severity |-> response.adjusted_severity,
     confidence |-> response.confidence,
     reasoning |-> response.reasoning,
     exploitability |-> response.exploitability]

\* An answer whose confidence is an integer too large for float.
OverflowData ==
    [is_false_positive |-> FALSE, adjusted_severity |-> "high",
     confidence |-> JsonHugeInt, reasoning |-> "certain", exploitability |-> {}]

LLMReplies ==
    {Returned(JsonText(DataOf(r))) : r \in LLMResponses}
        \cup {Returned(JsonText(OverflowData))}

\* What nuclei reports, before the matched URL is known.
DastTemplates ==
    { [template_id |-> "sqli-error-based", template_name |-> {"SQL Injection"},
       severity |-> "high", description |-> {}, cwe_ids |-> <<"CWE-89">>],
      [template_id |-> "reflected-xss", template_name |-> {"Cross-Site Scripting"},
       severity |-> "unknown", description |-> {}, cwe_ids |-> <<>>] }

MatchedUrls == <<"https://a.example.com/vuln", "https://b.example.com/vuln",
                 "https://c.example.com/vuln", "https://d.example.com/vuln">>

\* _parse_nuclei_finding for the j-th output line: every line has its own
\* matched-at URL.
DynamicFinding(t, j) ==
    [template_id |-> t.template_id, template_name |-> t.template_name,
     severity |-> t.severity, description |-> t.description,
     matched_at |-> MatchedUrls[j], endpoint |-> "https://example.com",
     curl_command |-> <<"curl -sS", MatchedUrls[j]>>,
     evidence |-> <<"error-based response">>,
     cve_ids |-> <<>>, cwe_ids |-> t.cwe_ids]

DastOutputs ==
    {[j \in 1..Len(ts) |-> DynamicFinding(ts[j], j)] :
        ts \in SeqsUpTo(DastTemplates, MaxDast)}

DependencyFindings ==
    { [cve_id |-> "CVE-2024-0001", severity |-> "critical", cvss_score |-> 98],
      [cve_id |-> "CVE-2024-0002", severity |-> "medium", cvss_score |-> -1] }

\* ------------------------------------------------------------------------
\* Exception messages
\* ------------------------------------------------------------------------
EmitError == "socket.io emit failed"
StageErrors ==
    { "repo_url is required for SAST scans",
      "Failed to clone repo",
      "Semgrep CLI is not installed or not in PATH",
      "Semgrep failed",
      "Semgrep returned invalid JSON output",
      ConfidenceOverflow,
      "correlation failed",
      "commit failed" }

\* ------------------------------------------------------------------------
\* The persisted rows
\* ------------------------------------------------------------------------
\* _update_scan ends with db.commit(): whatever the session holds is flushed.
SessionCommit(sess) ==
    [pending |-> <<>>, committed |-> sess.committed \o sess.pending]

\* Mutant of SessionAdd: a session that commits on every add.
SessionAddAutocommit(sess, rows) ==
    [pending |-> <<>>, committed |-> sess.committed \o sess.pending \o rows]

\* db.add of a list of rows.
SessionAdd(sess, rows) == [sess EXCEPT !.pending = @ \o rows]

\* A failed db.commit() rolls the transaction back: the pending rows are gone.
SessionRollback(sess) == [sess EXCEPT !.pending = <<>>]

\* Mutant of StaticRow: the score the aggregator wrote before correlation is
\* stored when there is one, instead of being recomputed.
StaticRowStoresAggregatorScore(item) ==
    [finding_type |-> "sast", flavor |-> "static", rule_id |-> item.rule_id,
     ai_severity |-> item.ai_severity,
     is_false_positive |-> item.is_false_positive,
     ai_confidence |-> item.ai_confidence,
     exploitability |-> item.exploitability,
     is_test_file |-> item.is_test_file, is_generated |-> item.is_generated,
     matched_at |-> item.dast_matched_at,
     confirmed_exploitable |-> item.confirmed_exploitable,
     priority_score |-> IF item.is_false_positive THEN 0
                        ELSE IF item.priority_score # -1 THEN item.priority_score
                        ELSE calculate_priority(item)]

\* scan_pipeline.py:142-179
StaticRow(item) ==
    [finding_type |-> "sast", flavor |-> "static", rule_id |-> item.rule_id,
     ai_severity |-> item.ai_severity,
     is_false_positive |-> item.is_false_positive,
     ai_confidence |-> item.ai_confidence,
     exploitability |-> item.exploitability,
     is_test_file |-> item.is_test_file, is_generated |-> item.is_generated,
     matched_at |-> item.dast_matched_at,
     confirmed_exploitable |-> item.confirmed_exploitable,
     priority_score |-> IF item.is_false_positive THEN 0
                        ELSE calculate_priority(item)]

\* scan_pipeline.py:181-219
DastRow(item) ==
    [finding_type |-> "dast", flavor |-> "dynamic", rule_id |-> item.template_id,
     ai_severity |-> _normalize_ai_severity(item.severity),
     is_false_positive |-> FALSE, ai_confidence |-> 100,
     exploitability |-> {"Confirmed via dynamic scan."},
     is_test_file |-> FALSE, is_generated |-> FALSE,
     matched_at |-> item.matched_at, confirmed_exploitable |-> TRUE,
     priority_score |-> _priority_from_dast(item.severity)]

\* scan_pipeline.py:221-266
DependencyRow(item) ==
    [finding_type |-> "sast", flavor |-> "dependency", rule_id |-> item.cve_id,
     ai_severity |-> _normalize_ai_severity(item.severity),
     is_false_positive |-> FALSE, ai_confidence |-> 100,
     exploitability |-> {"Known vulnerability in package."},
     is_test_file |-> FALSE, is_generated |-> FALSE,
     matched_at |-> None, confirmed_exploitable |-> FALSE,
     priority_score |-> _priority_from_dependency(item.severity, item.cvss_score)]

\* The rows one add loop hands to db.add, in order.
\* Mutant of StaticRows: rows for the findings process scored only.
StaticRowsOfScored(items) ==
    LET kept == SelectSeq(items, LAMBDA item : item.priority_score # -1)
    IN [i \in 1..Len(kept) |-> StaticRow(kept[i])]

StaticRows(items) == [i \in 1..Len(items) |-> StaticRow(items[i])]
DastRows(items) == [i \in 1..Len(items) |-> DastRow(items[i])]
DependencyRows(items) == [i \in 1..Len(items) |-> DependencyRow(items[i])]

\* ------------------------------------------------------------------------
\* RepoFetcher.clone (repo_fetcher.py:19-67)
\* ------------------------------------------------------------------------
\* first: outcome of the first git clone ("ok", "branch_missing": a
\* RuntimeError _is_branch_missing_error accepts, "error": any other failure);
\* default_branch: what _get_default_branch returns; second: outcome of the
\* clone of the default branch ("ok" or "fail").
\* Result: raised, the returned (path, branch), the directories on disk and
\* the number of mkdtemp calls.
GitNotRun == [first |-> "not run", default_branch |-> "not run", second |-> "not run"]

\* The git commands clone ran and what they answered: _get_default_branch is
\* only called after a branch-missing error, the second clone only when it
\* named a branch other than the requested one.
GitLog(first, default_branch, second, requested) ==
    [first |-> first,
     default_branch |-> IF first = "branch_missing" THEN default_branch ELSE "not run",
     second |-> IF first = "branch_missing" /\ default_branch # None
                   /\ default_branch # requested
                THEN second ELSE "not run"]

clone(first, default_branch, second, requested, dirs, n) ==
    LET dir1 == n + 1
        dir2 == n + 2
    IN IF first = "ok"
       THEN [raised |-> FALSE, path |-> dir1, resolved |-> requested,
             dirs |-> dirs \cup {dir1}, made |-> n + 1]
       ELSE IF first = "branch_missing" /\ default_branch # None
               /\ default_branch # requested
       THEN \* rmtree(target_dir); target_dir = mkdtemp(); second clone
            IF second = "ok"
            THEN [raised |-> FALSE, path |-> dir2, resolved |-> default_branch,
                  dirs |-> dirs \cup {dir2}, made |-> n + 2]
            ELSE \* raised inside the except clause: no handler removes dir2
                 [raised |-> TRUE, path |-> 0, resolved |-> None,
                  dirs |-> dirs \cup {dir2}, made |-> n + 2]
       ELSE \* rmtree(target_dir); raise
            [raised |-> TRUE, path |-> 0, resolved |-> None,
             dirs |-> dirs, made |-> n + 1]

\* ------------------------------------------------------------------------
\* Tool runners
\* ------------------------------------------------------------------------
\* SemgrepRunner.scan: the message of the RuntimeError it raises, None when
\* it returns. installed: the binary is on PATH; rc: its exit code; json_ok:
\* stdout parses as JSON.
SemgrepError(installed, rc, json_ok) ==
    IF ~installed THEN "Semgrep CLI is not installed or not in PATH"
    ELSE IF rc \notin {0, 1} THEN "Semgrep failed"
    ELSE IF ~json_ok THEN "Semgrep returned invalid JSON output"
    ELSE None

DastOutcomes == {"ok", "timeout", "nonzero"}

\* Mutant of DastScan: subprocess.TimeoutExpired is not caught.
DastScanTimeoutRaises(outcome, output) ==
    IF outcome = "timeout" THEN [raised |-> TRUE, findings |-> <<>>]
    ELSE IF outcome = "nonzero" THEN [raised |-> FALSE, findings |-> <<>>]
    ELSE [raised |-> FALSE, findings |-> output]

\* DASTRunner.scan: [raised, findings]; output is what nuclei printed.
DastScan(outcome, output) ==
    IF outcome = "timeout" THEN [raised |-> FALSE, findings |-> <<>>]
    ELSE IF outcome = "nonzero" THEN [raised |-> FALSE, findings |-> <<>>]
    ELSE [raised |-> FALSE, findings |-> output]

DepOutcomes == {"ok", "timeout", "nonzero", "empty", "badjson"}

\* DependencyScanner.scan: [raised, findings].
DependencyScan(outcome, output) ==
    IF outcome = "ok" THEN [raised |-> FALSE, findings |-> output]
    ELSE [raised |-> FALSE, findings |-> <<>>]

\* ------------------------------------------------------------------------
\* run_scan_pipeline (scan_pipeline.py:22-305)
\* ------------------------------------------------------------------------
Init ==
    /\ pc = "start"
    /\ scan_type \in {"sast", "dast", "both"}
    /\ repo_url \in {None, "https://github.com/org/repo"}
    /\ target_url \in {None, "https://example.com"}
    /\ branch = RequestedBranch
    /\ scan = [status |-> "pending", branch |-> RequestedBranch,
               total_findings |-> 0, filtered_findings |-> 0,
               dast_findings |-> 0, error_message |-> None]
    /\ emitted = <<>>
    /\ exc = None
    /\ repo_path = 0
    /\ tmpdirs = {}
    /\ made = 0
    /\ cleanups = <<>>
    /\ raw_findings = <<>>
    /\ contexts = <<>>
    /\ triaged = <<>>
    /\ dast_findings = <<>>
    /\ dependency_findings = <<>>
    /\ unmatched_dast = <<>>
    /\ session = [pending |-> <<>>, committed |-> <<>>]
    /\ tools = [dast |-> "not run", dep |-> "not run"]
    /\ stages = {}
    /\ git = GitNotRun
    /\ tasks = <<>>
    /\ permits = max_concurrency
    /\ index = EmptyIndex
    /\ calls = <<>>
    /\ health = NotEvaluated

\* _update_scan(db, scan_id, ...): the row with the given fields replaced,
\* then db.commit().
_update_scan(changes) ==
    /\ scan' = [k \in DOMAIN scan |->
                    IF k \in DOMAIN changes THEN changes[k] ELSE scan[k]]
    /\ session' = SessionCommit(session)

\* An exception reaches `except Exception as exc`.
Raise(msg) ==
    /\ pc' = "except"
    /\ exc' = msg

\* Lines 120-130, reached at the end of the SAST block or directly:
\* the dynamic phase starts, or the run goes on to correlation.
DastPhaseWanted == scan_type \in {"dast", "both"} /\ target_url # None

EnterDastOrAnalyze ==
    IF DastPhaseWanted
    THEN /\ _update_scan([status |-> "scanning"])
         /\ pc' = "emit_scanning_dast"
    ELSE /\ _update_scan([status |-> "analyzing"])
         /\ pc' = "emit_analyzing"

\* Lines 41-63.
Start ==
    /\ pc = "start"
    /\ IF scan_type \in {"sast", "both"}
       THEN IF repo_url = None
            THEN /\ Raise("repo_url is required for SAST scans")
                 /\ UNCHANGED <<scan, session>>
            ELSE /\ _update_scan([status |-> "cloning"])
                 /\ pc' = "emit_cloning"
                 /\ exc' = exc
       ELSE /\ EnterDastOrAnalyze
            /\ exc' = exc
    /\ UNCHANGED <<git, tasks, permits, index, calls, health>>
    /\ UNCHANGED <<scan_type, repo_url, target_url, branch, emitted, repo_path,
                   tmpdirs, made, cleanups, raw_findings, contexts, triaged,
                   dast_findings, dependency_findings, unmatched_dast, tools,
                   stages>>

\* await sio.emit(name, ...): the call is made; it returns or raises.
Emit(name, ok) ==
    /\ emitted' = Append(emitted, name)
    /\ IF ok THEN exc' = exc ELSE Raise(EmitError)

\* Lines 64-67.
EmitCloning ==
    /\ pc = "emit_cloning"
    /\ \E ok \in BOOLEAN :
        /\ Emit("scan.updated", ok)
        /\ ok => pc' = "clone"
    /\ UNCHANGED <<git, tasks, permits, index, calls, health>>
    /\ UNCHANGED <<scan_type, repo_url, target_url, branch, scan, repo_path,
                   tmpdirs, made, cleanups, raw_findings, contexts, triaged,
                   dast_findings, dependency_findings, unmatched_dast, session,
                   tools, stages>>

\* Mutant of Clone: the resolved branch is used but not written to the Scan.
CloneKeepsPersistedBranch ==
    /\ pc = "clone"
    /\ \E first \in {"ok", "branch_missing", "error"},
          default_branch \in {None, "main", RequestedBranch},
          second \in {"ok", "fail"} :
        LET r == clone(first, default_branch, second, branch, tmpdirs, made)
        IN /\ git' = GitLog(first, default_branch, second, branch)
           /\ tmpdirs' = r.dirs
           /\ made' = r.made
           /\ IF r.raised
              THEN /\ Raise("Failed to clone repo")
                   /\ UNCHANGED <<repo_path, branch, scan, session, stages>>
              ELSE /\ repo_path' = r.path
                   /\ exc' = exc
                   /\ stages' = stages \cup {"acquisition"}
                   /\ IF r.resolved # branch
                      THEN /\ branch' = r.resolved
                           /\ UNCHANGED <<scan, session>>
                           /\ pc' = "emit_branch"
                      ELSE /\ branch' = branch
                           /\ _update_scan([status |-> "scanning"])
                           /\ pc' = "emit_scanning_sast"
    /\ UNCHANGED <<scan_type, repo_url, target_url, emitted, cleanups,
                   raw_findings, contexts, triaged, dast_findings,
                   dependency_findings, unmatched_dast, tools, tasks, permits,
                   index, calls, health>>

\* Lines 69-81.
Clone ==
    /\ pc = "clone"
    /\ \E first \in {"ok", "branch_missing", "error"},
          default_branch \in {None, "main", RequestedBranch},
          second \in {"ok", "fail"} :
        LET r == clone(first, default_branch, second, branch, tmpdirs, made)
        IN /\ git' = GitLog(first, default_branch, second, branch)
           /\ tmpdirs' = r.dirs
           /\ made' = r.made
           /\ IF r.raised
              THEN /\ Raise("Failed to clone repo")
                   /\ UNCHANGED <<repo_path, branch, scan, session, stages>>
              ELSE /\ repo_path' = r.path
                   /\ exc' = exc
                   /\ stages' = stages \cup {"acquisition"}
                   /\ IF r.resolved # branch
                      THEN /\ branch' = r.resolved
                           /\ _update_scan([branch |-> r.resolved])
                           /\ pc' = "emit_branch"
                      ELSE /\ branch' = branch
                           /\ _update_scan([status |-> "scanning"])
                           /\ pc' = "emit_scanning_sast"
    /\ UNCHANGED <<scan_type, repo_url, target_url, emitted, cleanups,
                   raw_findings, contexts, triaged, dast_findings,
                   dependency_findings, unmatched_dast, tools, tasks, permits,
                   index, calls, health>>

\* Lines 77-81.
EmitBranch ==
    /\ pc = "emit_branch"
    /\ \E ok \in BOOLEAN :
        /\ Emit("scan.updated", ok)
        /\ IF ok
           THEN /\ _update_scan([status |-> "scanning"])
                /\ pc' = "emit_scanning_sast"
           ELSE UNCHANGED <<scan, session>>
    /\ UNCHANGED <<git, tasks, permits, index, calls, health>>
    /\ UNCHANGED <<scan_type, repo_url, target_url, branch, repo_path, tmpdirs,
                   made, cleanups, raw_findings, contexts, triaged,
                   dast_findings, dependency_findings, unmatched_dast, tools,
                   stages>>

\* Lines 82-98: the event, then the repository metadata is stored.
EmitScanningSast ==
    /\ pc = "emit_scanning_sast"
    /\ \E ok \in BOOLEAN :
        /\ Emit("scan.updated", ok)
        /\ IF ok
           THEN /\ _update_scan([status |-> scan.status])
                /\ pc' = "semgrep"
           ELSE UNCHANGED <<scan, session>>
    /\ UNCHANGED <<git, tasks, permits, index, calls, health>>
    /\ UNCHANGED <<scan_type, repo_url, target_url, branch, repo_path, tmpdirs,
                   made, cleanups, raw_findings, contexts, triaged,
                   dast_findings, dependency_findings, unmatched_dast, tools,
                   stages>>

\* Lines 99-106: the static scanner runs; its findings are counted.
RunSemgrep ==
    /\ pc = "semgrep"
    /\ \E installed \in BOOLEAN, rc \in {0, 1, 2}, json_ok \in BOOLEAN :
        IF SemgrepError(installed, rc, json_ok) # None
        THEN /\ Raise(SemgrepError(installed, rc, json_ok))
             /\ UNCHANGED <<raw_findings, scan, session, stages>>
        ELSE \E raw \in SeqsUpTo(RawFindings, MaxSast) :
             /\ raw_findings' = raw
             /\ _update_scan([status |-> "analyzing", total_findings |-> Len(raw)])
             /\ stages' = stages \cup {"static"}
             /\ pc' = "emit_analyzing_sast"
             /\ exc' = exc
    /\ UNCHANGED <<git, tasks, permits, index, calls, health>>
    /\ UNCHANGED <<scan_type, repo_url, target_url, branch, emitted, repo_path,
                   tmpdirs, made, cleanups, contexts, triaged, dast_findings,
                   dependency_findings, unmatched_dast, tools>>

\* Lines 107-112: the event, then the code context of every raw finding.
EmitAnalyzingSast ==
    /\ pc = "emit_analyzing_sast"
    /\ \E ok \in BOOLEAN :
        /\ Emit("scan.updated", ok)
        /\ IF ok
           THEN /\ contexts' = [i \in 1..Len(raw_findings) |-> extract(raw_findings[i])]
                /\ pc' = "triage"
           ELSE UNCHANGED contexts
    /\ UNCHANGED <<git, tasks, permits, index, calls, health>>
    /\ UNCHANGED <<scan_type, repo_url, target_url, branch, scan, repo_path,
                   tmpdirs, made, cleanups, raw_findings, triaged,
                   dast_findings, dependency_findings, unmatched_dast, session,
                   tools, stages>>

\* Line 113: triage_batch gathers one triage_finding per raw finding; llm is
\* what the LLM may answer to one prompt. A task that raises makes gather
\* raise.
TriageBatchOver(llm) ==
    /\ pc = "triage"
    /\ \E replies \in [1..Len(raw_findings) -> llm] :
        LET raises(i) == triage_raises(_parse_response(_call_llm(replies[i])))
        IN /\ tasks' = [i \in 1..Len(raw_findings) |->
                          [st |-> IF raises(i) THEN "raised" ELSE "done",
                           reply |-> replies[i]]]
           /\ IF \E i \in 1..Len(raw_findings) : raises(i)
              THEN /\ Raise(ConfidenceOverflow)
                   /\ UNCHANGED <<triaged, stages>>
              ELSE /\ triaged' = [i \in 1..Len(raw_findings) |->
                          triage_reply(raw_findings[i], contexts[i], replies[i])]
                   /\ stages' = stages \cup {"triage"}
                   /\ pc' = "aggregate"
                   /\ exc' = exc
    /\ UNCHANGED <<scan_type, repo_url, target_url, branch, scan, emitted,
                   repo_path, tmpdirs, made, cleanups, raw_findings, contexts,
                   dast_findings, dependency_findings, unmatched_dast, session,
                   tools, git, permits, index, calls, health>>

TriageBatch == TriageBatchOver(LLMReplies)

\* Lines 115-117: aggregator.process, then dependency_scanner.is_available().
AggregatorProcess ==
    /\ pc = "aggregate"
    /\ \E dups \in SUBSET _filter_false_positives(triaged) :
        triaged' = process(triaged, dups)
    /\ \E available \in BOOLEAN :
        IF available
        THEN /\ pc' = "dependency_scan"
             /\ UNCHANGED <<tools, scan, session, stages>>
        ELSE /\ tools' = [tools EXCEPT !.dep = "missing"]
             /\ stages' = stages \cup {"dependency"}
             /\ EnterDastOrAnalyze
    /\ UNCHANGED <<git, tasks, permits, index, calls, health>>
    /\ UNCHANGED <<scan_type, repo_url, target_url, branch, emitted, exc,
                   repo_path, tmpdirs, made, cleanups, raw_findings, contexts,
                   dast_findings, dependency_findings, unmatched_dast>>

\* Lines 118-121: the dependency-CVE scanner.
RunDependencyScan ==
    /\ pc = "dependency_scan"
    /\ \E outcome \in DepOutcomes,
          output \in SeqsUpTo(DependencyFindings, MaxDeps) :
        LET r == DependencyScan(outcome, output)
        IN /\ outcome # "ok" => output = <<>>
           /\ tools' = [tools EXCEPT !.dep = outcome]
           /\ IF r.raised
              THEN /\ Raise("Trivy failed")
                   /\ UNCHANGED <<dependency_findings, scan, session, stages>>
              ELSE /\ dependency_findings' = r.findings
                   /\ stages' = stages \cup {"dependency"}
                   /\ exc' = exc
                   /\ EnterDastOrAnalyze
    /\ UNCHANGED <<git, tasks, permits, index, calls, health>>
    /\ UNCHANGED <<scan_type, repo_url, target_url, branch, emitted, repo_path,
                   tmpdirs, made, cleanups, raw_findings, contexts, triaged,
                   dast_findings, unmatched_dast>>

\* Lines 122-130 when nuclei is not installed: the phase is skipped.
SkipDast ==
    /\ tools' = [tools EXCEPT !.dast = "missing"]
    /\ scan' = [scan EXCEPT !.dast_findings = Len(dast_findings),
                            !.status = "analyzing"]
    /\ session' = SessionCommit(session)
    /\ stages' = stages \cup {"dynamic"}
    /\ pc' = "emit_analyzing"

\* Lines 122-126: the event, then dast_runner.is_available().
EmitScanningDast ==
    /\ pc = "emit_scanning_dast"
    /\ \E ok \in BOOLEAN, available \in BOOLEAN :
        /\ Emit("scan.updated", ok)
        /\ IF ~ok THEN UNCHANGED <<tools, scan, session, stages>>
           ELSE IF available
           THEN /\ pc' = "dast_scan"
                /\ UNCHANGED <<tools, scan, session, stages>>
           ELSE SkipDast
    /\ UNCHANGED <<git, tasks, permits, index, calls, health>>
    /\ UNCHANGED <<scan_type, repo_url, target_url, branch, repo_path, tmpdirs,
                   made, cleanups, raw_findings, contexts, triaged,
                   dast_findings, dependency_findings, unmatched_dast>>

\* Lines 127-130: the dynamic scanner, its counter, then status analyzing.
RunDastScan ==
    /\ pc = "dast_scan"
    /\ \E outcome \in DastOutcomes, output \in DastOutputs :
        LET r == DastScan(outcome, output)
        IN /\ outcome # "ok" => output = <<>>
           /\ tools' = [tools EXCEPT !.dast = outcome]
           /\ IF r.raised
              THEN /\ Raise("Nuclei failed")
                   /\ UNCHANGED <<dast_findings, scan, session, stages>>
              ELSE /\ dast_findings' = r.findings
                   /\ scan' = [scan EXCEPT !.dast_findings = Len(r.findings),
                                           !.status = "analyzing"]
                   /\ session' = SessionCommit(session)
                   /\ stages' = stages \cup {"dynamic"}
                   /\ pc' = "emit_analyzing"
                   /\ exc' = exc
    /\ UNCHANGED <<git, tasks, permits, index, calls, health>>
    /\ UNCHANGED <<scan_type, repo_url, target_url, branch, emitted, repo_path,
                   tmpdirs, made, cleanups, raw_findings, contexts, triaged,
                   dependency_findings, unmatched_dast>>

\* Lines 131-138.
EmitAnalyzing ==
    /\ pc = "emit_analyzing"
    /\ \E ok \in BOOLEAN :
        /\ Emit("scan.updated", ok)
        /\ ok => pc' = "correlate"
    /\ UNCHANGED <<git, tasks, permits, index, calls, health>>
    /\ UNCHANGED <<scan_type, repo_url, target_url, branch, scan, repo_path,
                   tmpdirs, made, cleanups, raw_findings, contexts, triaged,
                   dast_findings, dependency_findings, unmatched_dast, session,
                   tools, stages>>

\* Line 140.
Correlate ==
    /\ pc = "correlate"
    /\ \E fails \in BOOLEAN :
        IF fails
        THEN /\ Raise("correlation failed")
             /\ UNCHANGED <<triaged, unmatched_dast, stages>>
        ELSE LET r == correlate_findings(triaged, dast_findings)
             IN /\ triaged' = r[1]
                /\ unmatched_dast' = r[2]
                /\ stages' = stages \cup {"correlation"}
                /\ pc' = "add_static"
                /\ exc' = exc
    /\ UNCHANGED <<git, tasks, permits, index, calls, health>>
    /\ UNCHANGED <<scan_type, repo_url, target_url, branch, scan, emitted,
                   repo_path, tmpdirs, made, cleanups, raw_findings, contexts,
                   dast_findings, dependency_findings, session, tools>>

\* Lines 142-179: one db.add per static finding.
AddStatic ==
    /\ pc = "add_static"
    /\ session' = SessionAdd(session, StaticRows(triaged))
    /\ pc' = "add_dast"
    /\ UNCHANGED <<git, tasks, permits, index, calls, health>>
    /\ UNCHANGED <<scan_type, repo_url, target_url, branch, scan, emitted, exc,
                   repo_path, tmpdirs, made, cleanups, raw_findings, contexts,
                   triaged, dast_findings, dependency_findings, unmatched_dast,
                   tools, stages>>

\* Lines 181-219: one db.add per unmatched dynamic finding.
AddUnmatched ==
    /\ pc = "add_dast"
    /\ session' = SessionAdd(session, DastRows(unmatched_dast))
    /\ pc' = "add_dependency"
    /\ UNCHANGED <<git, tasks, permits, index, calls, health>>
    /\ UNCHANGED <<scan_type, repo_url, target_url, branch, scan, emitted, exc,
                   repo_path, tmpdirs, made, cleanups, raw_findings, contexts,
                   triaged, dast_findings, dependency_findings, unmatched_dast,
                   tools, stages>>

\* Lines 221-266: one db.add per dependency finding.
AddDependency ==
    /\ pc = "add_dependency"
    /\ session' = SessionAdd(session, DependencyRows(dependency_findings))
    /\ pc' = "commit"
    /\ UNCHANGED <<git, tasks, permits, index, calls, health>>
    /\ UNCHANGED <<scan_type, repo_url, target_url, branch, scan, emitted, exc,
                   repo_path, tmpdirs, made, cleanups, raw_findings, contexts,
                   triaged, dast_findings, dependency_findings, unmatched_dast,
                   tools, stages>>

\* Mutant of FilteredCount: the static findings are counted whole.
FilteredCountAllStatic(items, unmatched, deps) ==
    Len(items) + Len(unmatched) + Len(deps)

\* Lines 270-276.
FilteredCount(items, unmatched, deps) ==
    Cardinality({i \in 1..Len(items) : ~items[i].is_false_positive})
        + Len(unmatched) + Len(deps)

\* Lines 268-284: db.commit(), the counters, status completed.
Commit ==
    /\ pc = "commit"
    /\ \E fails \in BOOLEAN :
        IF fails
        THEN /\ session' = SessionRollback(session)
             /\ Raise("commit failed")
             /\ UNCHANGED <<scan, stages>>
        ELSE /\ scan' = [scan EXCEPT
                    !.status = "completed",
                    !.total_findings = Len(triaged) + Len(unmatched_dast)
                                         + Len(dependency_findings),
                    !.filtered_findings = FilteredCount(triaged, unmatched_dast,
                                                        dependency_findings)]
             /\ session' = SessionCommit(session)
             /\ stages' = stages \cup {"persistence"}
             /\ pc' = "emit_completed"
             /\ exc' = exc
    /\ UNCHANGED <<git, tasks, permits, index, calls, health>>
    /\ UNCHANGED <<scan_type, repo_url, target_url, branch, emitted, repo_path,
                   tmpdirs, made, cleanups, raw_findings, contexts, triaged,
                   dast_findings, dependency_findings, unmatched_dast, tools>>

\* Lines 286-295.
EmitCompleted ==
    /\ pc = "emit_completed"
    /\ \E ok \in BOOLEAN :
        /\ Emit("scan.completed", ok)
        /\ ok => pc' = "finally"
    /\ UNCHANGED <<git, tasks, permits, index, calls, health>>
    /\ UNCHANGED <<scan_type, repo_url, target_url, branch, scan, repo_path,
                   tmpdirs, made, cleanups, raw_findings, contexts, triaged,
                   dast_findings, dependency_findings, unmatched_dast, session,
                   tools, stages>>

\* Mutant of ExceptHandler: the status is set but the message is not stored.
ExceptHandlerDropsMessage ==
    /\ pc = "except"
    /\ _update_scan([status |-> "failed"])
    /\ emitted' = Append(emitted, "scan.failed")
    /\ pc' = "finally"
    /\ UNCHANGED <<git, tasks, permits, index, calls, health>>
    /\ UNCHANGED <<scan_type, repo_url, target_url, branch, exc, repo_path,
                   tmpdirs, made, cleanups, raw_findings, contexts, triaged,
                   dast_findings, dependency_findings, unmatched_dast, tools,
                   stages>>

\* Lines 296-301: except Exception as exc. The scan.failed emit returns or
\* raises; either way `finally` runs next.
ExceptHandler ==
    /\ pc = "except"
    /\ _update_scan([status |-> "failed", error_message |-> exc])
    /\ emitted' = Append(emitted, "scan.failed")
    /\ pc' = "finally"
    /\ UNCHANGED <<git, tasks, permits, index, calls, health>>
    /\ UNCHANGED <<scan_type, repo_url, target_url, branch, exc, repo_path,
                   tmpdirs, made, cleanups, raw_findings, contexts, triaged,
                   dast_findings, dependency_findings, unmatched_dast, tools,
                   stages>>

\* RepoFetcher.cleanup (repo_fetcher.py:69-70).
cleanup(dirs, path) == dirs \ {path}

\* Lines 302-305.
Finally ==
    /\ pc = "finally"
    /\ IF repo_path # 0
       THEN /\ tmpdirs' = cleanup(tmpdirs, repo_path)
            /\ cleanups' = Append(cleanups, repo_path)
       ELSE UNCHANGED <<tmpdirs, cleanups>>
    /\ pc' = "done"
    /\ UNCHANGED <<git, tasks, permits, index, calls, health>>
    /\ UNCHANGED <<scan_type, repo_url, target_url, branch, scan, emitted, exc,
                   repo_path, made, raw_findings, contexts, triaged,
                   dast_findings, dependency_findings, unmatched_dast, session,
                   tools, stages>>

Next ==
    \/ Start
    \/ EmitCloning
    \/ Clone
    \/ EmitBranch
    \/ EmitScanningSast
    \/ RunSemgrep
    \/ EmitAnalyzingSast
    \/ TriageBatch
    \/ AggregatorProcess
    \/ RunDependencyScan
    \/ EmitScanningDast
    \/ RunDastScan
    \/ EmitAnalyzing
    \/ Correlate
    \/ AddStatic
    \/ AddUnmatched
    \/ AddDependency
    \/ Commit
    \/ EmitCompleted
    \/ ExceptHandler
    \/ Finally

Spec == Init /\ [][Next]_vars

\* ------------------------------------------------------------------------
\* Properties
\* ------------------------------------------------------------------------
Correlated == "correlation" \in stages

\* Positions of the static findings that carry the evidence of dast_findings[j].
ConsumersOf(j) ==
    {i \in 1..Len(triaged) : triaged[i].dast_matched_at = dast_findings[j].matched_at}

\* C1: after correlate_findings, every dynamic finding has been consumed by at
\* most one static finding (at most one static finding carries its evidence).
C1_InjectiveFromDynamic ==
    Correlated => \A j \in 1..Len(dast_findings) : Cardinality(ConsumersOf(j)) <= 1

\* C2: after correlate_findings, the unmatched list holds exactly the dynamic
\* findings that no static finding selected, in input order.
C2_UnmatchedIsTheRest ==
    Correlated =>
        unmatched_dast = SelectSeq(dast_findings,
            LAMBDA d : \A i \in 1..Len(triaged) :
                            triaged[i].dast_matched_at # d.matched_at)

StatusRank(st) ==
    CASE st = "pending"   -> 0
      [] st = "cloning"   -> 1
      [] st = "scanning"  -> 2
      [] st = "analyzing" -> 3
      [] OTHER            -> 4

\* C3: the persisted status only moves forward in the order pending, cloning,
\* scanning, analyzing, then completed or failed.
C3_StatusMonotone ==
    [][scan'.status = scan.status \/ StatusRank(scan.status) < StatusRank(scan'.status)]_vars

\* C4: a run in which only an sio.emit call raised (every stage that ran
\* succeeded) ends with status completed.
C4_EmitFailureDoesNotAbort ==
    (pc = "done" /\ exc = EmitError) => scan.status = "completed"

FailedEvents == Cardinality({k \in 1..Len(emitted) : emitted[k] = "scan.failed"})

ToolFailed ==
    \/ tools.dast \in {"timeout", "nonzero", "missing"}
    \/ tools.dep \in {"timeout", "nonzero", "empty", "missing"}

\* C6: when the dynamic or the dependency-CVE scanner fails (timeout, non-zero
\* exit, no output, binary missing) and nothing else raises, the run ends
\* completed; after a dynamic-scanner timeout dast_findings is 0.
C6_ToolFailuresNotFatal ==
    (pc = "done" /\ ToolFailed /\ exc \notin StageErrors \cup {EmitError}) =>
        /\ scan.status = "completed"
        /\ tools.dast = "timeout" => scan.dast_findings = 0

C6_Witness ==
    /\ pc = "done"
    /\ tools.dast = "timeout"
    /\ tools.dep = "nonzero"
    /\ scan.status = "completed"
    /\ scan.dast_findings = 0

\* C7: when the run has returned, every temporary directory clone created
\* has been removed, and cleanup was called at most once per path.
C7_TempDirsReleased ==
    pc = "done" =>
        /\ tmpdirs = {}
        /\ \A a, b \in 1..Len(cleanups) : cleanups[a] = cleanups[b] => a = b

AllRows ==
    StaticRows(triaged) \o DastRows(unmatched_dast)
        \o DependencyRows(dependency_findings)

UpstreamDone ==
    /\ Correlated
    /\ scan_type \in {"sast", "both"} => {"static", "triage", "dependency"} \subseteq stages
    /\ DastPhaseWanted => "dynamic" \in stages

\* C8: Finding rows are committed only after static scan, triage, dependency
\* scan, dynamic scan and correlation have completed, and all together: the
\* committed rows are either none or all the rows of the run.
C8_FindingsCommittedTogether ==
    /\ session.committed # <<>> => UpstreamDone /\ session.committed = AllRows
    /\ "persistence" \in stages => session.committed = AllRows

C8_Witness ==
    /\ pc = "done"
    /\ scan.status = "failed"
    /\ Len(session.committed) >= 3
    /\ \E k \in 1..Len(session.committed) : session.committed[k].flavor = "dynamic"

\* ------------------------------------------------------------------------
\* Scoring runs: the orchestrator from correlation on (lines 140-284), over
\* one finding of one flavor drawn from the whole range of what triage, the
\* dynamic scanner and the dependency scanner can hand over.
\* ------------------------------------------------------------------------
ScoreRawFindings ==
    RawFindings \cup
    { [rule_id |-> "semgrep.xss", rule_message |-> {"CWE-79"},
       severity |-> "WARNING", file_path |-> "tests/test_views.py"] }

ScoreSeverities == {"critical", "high", "medium", "low", "info", "bogus"}
ScoreConfidences == {0, 34, 35, 60, 100}
ScoreExploitabilities ==
    { {}, {"Remote"}, {"unauthenticated"}, {"unlikely"},
      {"requires authentication"}, {"not exploitable", "local only"} }

ScoreResponses ==
    { [parsed |-> FALSE, is_false_positive |-> FALSE, adjusted_severity |-> "",
       confidence |-> 50, reasoning |-> "", exploitability |-> {}] }
    \cup [parsed : {TRUE}, is_false_positive : BOOLEAN,
          adjusted_severity : ScoreSeverities, confidence : ScoreConfidences,
          reasoning : {"because"}, exploitability : ScoreExploitabilities]

\* One reply per answer of ScoreResponses: the unparsed one is a call that
\* timed out.
ScoreReplies ==
    {IF r.parsed THEN Returned(JsonText(DataOf(r)))
     ELSE [outcome |-> "timeout", text |-> EmptyText] : r \in ScoreResponses}

ToolSeverities ==
    {"critical", "high", "medium", "moderate", "low", "info", "unknown"}

ScoreDastOutputs ==
    {<<>>} \cup
    { <<DynamicFinding([t EXCEPT !.severity = sv], 1)>> :
        t \in DastTemplates, sv \in ToolSeverities }

ScoreDependencyOutputs ==
    {<<>>} \cup
    { <<[cve_id |-> "CVE-2024-0001", severity |-> sv, cvss_score |-> -1]>> :
        sv \in ToolSeverities } \cup
    { <<[cve_id |-> "CVE-2024-0002", severity |-> "high", cvss_score |-> cv]>> :
        cv \in {0, 39, 40, 69, 70, 89, 90, 100} }

InitScore ==
    /\ pc = "correlate"
    /\ scan_type = "both"
    /\ repo_url = "https://github.com/org/repo"
    /\ target_url = "https://example.com"
    /\ branch = RequestedBranch
    /\ emitted = <<"scan.updated", "scan.updated", "scan.updated",
                   "scan.updated", "scan.updated">>
    /\ exc = None
    /\ repo_path = 1
    /\ tmpdirs = {1}
    /\ made = 1
    /\ cleanups = <<>>
    /\ unmatched_dast = <<>>
    /\ session = [pending |-> <<>>, committed |-> <<>>]
    /\ tools = [dast |-> "ok", dep |-> "ok"]
    /\ stages = {"acquisition", "static", "triage", "dependency", "dynamic"}
    /\ git = GitLog("ok", None, "ok", RequestedBranch)
    /\ permits = max_concurrency
    /\ index = EmptyIndex
    /\ calls = <<>>
    /\ health = NotEvaluated
    /\ \E raw \in SeqsUpTo(ScoreRawFindings, 1) :
        /\ raw_findings = raw
        /\ contexts = [i \in 1..Len(raw) |-> extract(raw[i])]
        /\ \E replies \in [1..Len(raw) -> ScoreReplies], dups \in SUBSET (1..Len(raw)) :
            /\ tasks = [i \in 1..Len(raw) |-> [st |-> "done", reply |-> replies[i]]]
            /\ triaged = process([i \in 1..Len(raw) |->
                                     triage_reply(raw[i], contexts[i], replies[i])],
                                 dups)
    /\ dast_findings \in ScoreDastOutputs
    /\ dependency_findings \in ScoreDependencyOutputs
    /\ \/ /\ raw_findings # <<>>
          /\ dast_findings \in {<<>>} \cup {<<DynamicFinding(t, 1)>> : t \in DastTemplates}
          /\ dependency_findings = <<>>
       \/ /\ raw_findings = <<>>
          /\ dast_findings = <<>> \/ dependency_findings = <<>>
    /\ scan = [status |-> "analyzing", branch |-> RequestedBranch,
               total_findings |-> Len(raw_findings), filtered_findings |-> 0,
               dast_findings |-> Len(dast_findings), error_message |-> None]

NextScore ==
    \/ Correlate
    \/ AddStatic
    \/ AddUnmatched
    \/ AddDependency
    \/ Commit

SpecScore == InitScore /\ [][NextScore]_vars

PersistedRows ==
    {session.pending[k] : k \in 1..Len(session.pending)}
        \cup {session.committed[k] : k \in 1..Len(session.committed)}

CommittedStaticRows ==
    {session.committed[k] : k \in {n \in 1..Len(session.committed) :
                                        session.committed[n].flavor = "static"}}

\* C9: every Finding row the orchestrator writes, of every flavor, has an
\* integer priority_score between 0 and 100.
C9_PriorityInRange ==
    \A row \in PersistedRows : row.priority_score \in 0..100

C9_Witness ==
    /\ pc = "emit_completed"
    /\ \E row \in CommittedStaticRows :
        /\ row.priority_score = 100
        /\ row.confirmed_exploitable
        /\ RoundHalfEven(RawScore200(row), 200) > 100

\* C10 as stated: the stored priority_score of every static row equals
\* calculate_priority on the row's own persisted fields.
C10_ScoreReproducible ==
    \A row \in CommittedStaticRows : row.priority_score = calculate_priority(row)

\* C10 amended: it does so for the rows not flagged false positive; a row
\* flagged false positive stores 0.
C10_ScoreReproducibleUnlessFalsePositive ==
    \A row \in CommittedStaticRows :
        row.priority_score = IF row.is_false_positive THEN 0
                             ELSE calculate_priority(row)

C10_Witness ==
    /\ pc = "emit_completed"
    /\ \E row \in CommittedStaticRows :
        /\ row.confirmed_exploitable
        /\ ~row.is_false_positive
        /\ row.priority_score = calculate_priority(row)
        /\ row.priority_score \in 1..99
        /\ triaged[1].priority_score \notin {-1, row.priority_score}

\* ------------------------------------------------------------------------
\* Confidence scaling and exploitability phrases of calculate_priority
\* ------------------------------------------------------------------------
NonFalsePositiveStaticRows == {row \in CommittedStaticRows : ~row.is_false_positive}

\* The score the documented formula gives, times 200: the base weight scaled
\* by 0.5 + 0.5*c with c the stored confidence itself, -10 when c < 0.35, then
\* the adjustments for exploitability, test/generated file and confirmation.
DocumentedScore200(f) ==
    SeverityWeight(f.ai_severity) * (100 + f.ai_confidence)
    + 200 * ((IF f.ai_confidence < 35 THEN -10 ELSE 0)
             + (IF AnyTermIn(NegativeTerms, TextLower(f.exploitability)) THEN -15 ELSE 0)
             + (IF AnyTermIn(PositiveTerms, TextLower(f.exploitability)) THEN 10 ELSE 0)
             + (IF AnyTermIn(AuthTerms, TextLower(f.exploitability)) THEN -10 ELSE 0)
             + (IF f.is_test_file \/ f.is_generated THEN -25 ELSE 0)
             + (IF f.confirmed_exploitable THEN 15 ELSE 0))

\* C11: for every confidence c in [0,1], c = 0 included, the stored score is
\* the base weight scaled by 0.5 + 0.5*c, minus 10 when c < 0.35, with the
\* other adjustments, clamped; and the score at c = 0 is not higher than the
\* score of the same finding at any larger confidence.
C11_ConfidenceScaling ==
    \A row \in NonFalsePositiveStaticRows :
        /\ row.priority_score =
               Max(0, Min(100, RoundHalfEven(DocumentedScore200(row), 200)))
        /\ row.ai_confidence = 0 =>
               \A c \in ScoreConfidences :
                   row.priority_score
                       <= calculate_priority([row EXCEPT !.ai_confidence = c])

\* The phrases C12 lists as cancelling or lowering the bonus.
C12_OtherPhrases ==
    {"requires authentication", "local only", "user interaction",
     "not exploitable", "unlikely", "false positive"}

\* C12: an exploitability text with "remote", "arbitrary" or "unauthenticated"
\* and none of the other listed phrases scores exactly 10 more, before the
\* clamp, than the same finding with a text that has none of the phrases.
C12_RemoteBonus ==
    \A row \in NonFalsePositiveStaticRows :
        (/\ AnyTermIn(PositiveTerms, TextLower(row.exploitability))
         /\ ~AnyTermIn(C12_OtherPhrases, TextLower(row.exploitability)))
        => RawScore200(row)
               = RawScore200([row EXCEPT !.exploitability = {}]) + 200 * 10

\* ------------------------------------------------------------------------
\* Triage runs: the orchestrator from triage_batch on (lines 113-305), over
\* one raw finding and the whole range of what the LLM call can do. Runs
\* without a dynamic phase take every tool-native severity, every code context
\* and also the answers that differ in what the score reads; runs with a
\* dynamic phase take a finding in a test or generated file.
\* ------------------------------------------------------------------------
TriageRawFindings ==
    { [rule_id |-> "semgrep.sql-injection", rule_message |-> {"SQL Injection"},
       severity |-> sv, file_path |-> "app/db.py"] : sv \in {"ERROR", "WARNING", "INFO"} }

\* CodeContext flags of the file of a finding.
TriageContexts == [is_test_file : BOOLEAN, is_generated : BOOLEAN]

\* Answers that differ in the severity and the false-positive flag.
SeverityData ==
    [is_false_positive : BOOLEAN,
     adjusted_severity : ScoreSeverities \cup {"HIGH"},
     confidence : {60}, reasoning : {"because"}, exploitability : {{}}]

\* Answers "high, not a false positive" that differ in what the score reads.
HighData ==
    [is_false_positive : {FALSE}, adjusted_severity : {"high"},
     confidence : ScoreConfidences \cup {20, 59, 150, JsonNotNumeric},
     reasoning : {"because"}, exploitability : ScoreExploitabilities]

SeverityReplies ==
    FailedReplies
    \cup {Returned(t) : t \in UnparsableTexts}
    \cup {Returned(JsonText(d)) : d \in SeverityData \cup {OverflowData}}

TriageReplies(dynamic) ==
    IF dynamic THEN SeverityReplies
    ELSE SeverityReplies \cup {Returned(JsonText(d)) : d \in HighData}

InitTriage ==
    /\ pc = "triage"
    /\ scan_type \in {"sast", "both"}
    /\ repo_url = "https://github.com/org/repo"
    /\ target_url = IF scan_type = "both" THEN "https://example.com" ELSE None
    /\ branch = RequestedBranch
    /\ emitted = <<"scan.updated", "scan.updated", "scan.updated">>
    /\ exc = None
    /\ repo_path = 1
    /\ tmpdirs = {1}
    /\ made = 1
    /\ cleanups = <<>>
    /\ raw_findings \in {<<f>> : f \in TriageRawFindings}
    /\ contexts \in {<<c>> : c \in TriageContexts}
    /\ scan_type = "both" =>
            /\ raw_findings[1].severity = "ERROR"
            /\ contexts[1].is_test_file \/ contexts[1].is_generated
    /\ triaged = <<>>
    /\ dast_findings = <<>>
    /\ dependency_findings = <<>>
    /\ unmatched_dast = <<>>
    /\ session = [pending |-> <<>>, committed |-> <<>>]
    /\ tools = [dast |-> "not run", dep |-> "not run"]
    /\ stages = {"acquisition", "static"}
    /\ git = GitLog("ok", None, "ok", RequestedBranch)
    /\ tasks = <<>>
    /\ permits = max_concurrency
    /\ index = EmptyIndex
    /\ calls = <<>>
    /\ health = NotEvaluated
    /\ scan = [status |-> "analyzing", branch |-> RequestedBranch,
               total_findings |-> 1, filtered_findings |-> 0,
               dast_findings |-> 0, error_message |-> None]

TriageBatchRich == TriageBatchOver(TriageReplies(DastPhaseWanted))

NextTriage ==
    \/ TriageBatchRich
    \/ AggregatorProcess
    \/ RunDependencyScan
    \/ EmitScanningDast
    \/ RunDastScan
    \/ EmitAnalyzing
    \/ Correlate
    \/ AddStatic
    \/ AddUnmatched
    \/ AddDependency
    \/ Commit
    \/ EmitCompleted
    \/ ExceptHandler
    \/ Finally

SpecTriage == InitTriage /\ [][NextTriage]_vars

\* What triage_finding returned for the i-th raw finding of the run.
TriageOutput(i) == triage_reply(raw_findings[i], contexts[i], tasks[i].reply)

\* Scenario A: triage returned "high, not a false positive" for a finding in
\* a file that is neither test nor generated, and no dynamic scan is requested.
ScenarioA(i) ==
    /\ ~DastPhaseWanted
    /\ i <= Len(tasks)
    /\ ~TriageOutput(i).is_false_positive
    /\ TriageOutput(i).ai_severity = "high"
    /\ ~contexts[i].is_test_file
    /\ ~contexts[i].is_generated

\* Positions of the committed rows that are static findings; the i-th static
\* row is the row of the i-th triaged finding.
StaticPositions ==
    {k \in 1..Len(session.committed) : session.committed[k].flavor = "static"}

\* C13 as stated: in scenario A the persisted Finding has ai_severity high,
\* confirmed_exploitable false and a priority_score between 60 and 85, for
\* every confidence and exploitability text triage can return.
C13_ScenarioAScore ==
    \A i \in StaticPositions :
        ScenarioA(i) =>
            /\ session.committed[i].ai_severity = "high"
            /\ ~session.committed[i].confirmed_exploitable
            /\ session.committed[i].priority_score \in 60..85

\* C13 amended: it holds when the confidence triage returned is at least 0.6
\* and the exploitability text has none of the phrases that lower the score.
C13_ScenarioAScoreConfident ==
    \A i \in StaticPositions :
        (/\ ScenarioA(i)
         /\ TriageOutput(i).ai_confidence >= 60
         /\ ~AnyTermIn(NegativeTerms \cup AuthTerms,
                       TextLower(TriageOutput(i).exploitability)))
        => /\ session.committed[i].ai_severity = "high"
           /\ ~session.committed[i].confirmed_exploitable
           /\ session.committed[i].priority_score \in 60..85

C13_Witness ==
    /\ pc = "done"
    /\ scan.status = "completed"
    /\ 1 \in StaticPositions
    /\ ScenarioA(1)
    /\ TriageOutput(1).ai_confidence = 100
    /\ TriageOutput(1).exploitability = {"Remote"}
    /\ session.committed[1].priority_score = 85

\* C14: a finding whose context is a test file or a generated file leaves
\* triage_finding with ai_severity low or info, whatever the LLM did and
\* whatever the tool-native severity; so does its persisted static row.
C14_TestOrGeneratedNeverAboveLow ==
    /\ \A i \in 1..Len(triaged) :
        (contexts[i].is_test_file \/ contexts[i].is_generated)
            => triaged[i].ai_severity \in {"low", "info"}
    /\ \A row \in {r \in PersistedRows : r.flavor = "static"} :
        (row.is_test_file \/ row.is_generated)
            => row.ai_severity \in {"low", "info"}

C14_Witness ==
    /\ pc = "done"
    /\ scan.status = "completed"
    /\ tasks[1].reply.text.data.adjusted_severity = "critical"
    /\ 1 \in StaticPositions
    /\ session.committed[1].is_generated
    /\ session.committed[1].confirmed_exploitable
    /\ session.committed[1].ai_severity = "low"

\* The LLM call raised, timed out, or returned a text with no JSON object.
NoJsonObject(reply) ==
    \/ reply.outcome \in {"raised", "timeout"}
    \/ reply.outcome = "returned" /\ reply.text.kind # "json"

\* The severity the tool-native severity stands for.
ToolDerivedSeverity(severity) ==
    CASE severity = "ERROR"   -> "high"
      [] severity = "WARNING" -> "medium"
      [] OTHER                -> "low"

\* C15: when the LLM call raises, times out or returns no JSON object,
\* triage_finding does not raise and returns is_false_positive false,
\* confidence 0.2, the fallback reasoning and the severity derived from the
\* tool-native severity, context-adjusted (low in a test or generated file).
C15_TriageFallback ==
    \A i \in 1..Len(tasks) :
        NoJsonObject(tasks[i].reply) =>
            /\ tasks[i].st = "done"
            /\ pc = "aggregate" =>
                /\ ~triaged[i].is_false_positive
                /\ triaged[i].ai_confidence = 20
                /\ triaged[i].ai_reasoning = FallbackReasoning
                /\ triaged[i].ai_severity =
                       IF (contexts[i].is_test_file \/ contexts[i].is_generated)
                          /\ ToolDerivedSeverity(raw_findings[i].severity)
                                 \in {"high", "medium"}
                       THEN "low"
                       ELSE ToolDerivedSeverity(raw_findings[i].severity)

C15_Witness ==
    /\ pc = "aggregate"
    /\ tasks[1].reply.outcome = "timeout"
    /\ raw_findings[1].severity = "WARNING"
    /\ ~contexts[1].is_test_file
    /\ ~contexts[1].is_generated
    /\ triaged[1].ai_severity = "medium"
    /\ triaged[1].ai_confidence = 20

(***************************************************************************)
(* triage_batch task by task (ai_triage.py:78-92).  Every triage_finding   *)
(* task waits for the semaphore, holds it while llm_client.generate is in  *)
(* flight, releases it when the async-with block is left, and then parses  *)
(* the reply.  The event loop interleaves the tasks at their awaits.       *)
(***************************************************************************)

BatchOthersUnchanged ==
    UNCHANGED <<scan_type, repo_url, target_url, branch, scan, emitted,
                repo_path, tmpdirs, made, cleanups, raw_findings, contexts,
                dast_findings, dependency_findings, unmatched_dast, session,
                tools, git, index, calls, health>>

\* Line 81: one coroutine per finding; none has run yet.
CreateTasks ==
    /\ pc = "triage"
    /\ tasks = <<>>
    /\ tasks' = [i \in 1..Len(raw_findings) |-> [st |-> "waiting", reply |-> NoReply]]
    /\ UNCHANGED <<pc, exc, triaged, stages, permits>>
    /\ BatchOthersUnchanged

\* Mutant of SemaphoreAcquire: the task enters without a free slot.
SemaphoreAcquireUnguarded(i) ==
    /\ i \in 1..Len(tasks)
    /\ tasks[i].st = "waiting"
    /\ tasks' = [tasks EXCEPT ![i].st = "calling"]
    /\ permits' = permits - 1
    /\ UNCHANGED <<pc, exc, triaged, stages>>
    /\ BatchOthersUnchanged

\* Line 85: `async with self.semaphore` is entered when a slot is free; the
\* task then awaits llm_client.generate under wait_for.
SemaphoreAcquire(i) ==
    /\ i \in 1..Len(tasks)
    /\ tasks[i].st = "waiting"
    /\ permits > 0
    /\ tasks' = [tasks EXCEPT ![i].st = "calling"]
    /\ permits' = permits - 1
    /\ UNCHANGED <<pc, exc, triaged, stages>>
    /\ BatchOthersUnchanged

\* Lines 86-92 and 30-76: generate returns, raises or times out; the
\* async-with block is left on each of these paths and gives the slot back;
\* the task goes on to parse the reply, which ends it (done or raised).
CallLLMExit(i, reply) ==
    /\ i \in 1..Len(tasks)
    /\ tasks[i].st = "calling"
    /\ permits' = permits + 1
    /\ tasks' = [tasks EXCEPT ![i] =
                    [st |-> IF triage_raises(_parse_response(_call_llm(reply)))
                            THEN "raised" ELSE "done",
                     reply |-> reply]]
    /\ UNCHANGED <<pc, exc, triaged, stages>>
    /\ BatchOthersUnchanged

\* Line 82: gather returns the results in input order once every task is done.
GatherReturns ==
    /\ pc = "triage"
    /\ tasks # <<>>
    /\ \A i \in 1..Len(tasks) : tasks[i].st = "done"
    /\ triaged' = [i \in 1..Len(tasks) |->
                      triage_reply(raw_findings[i], contexts[i], tasks[i].reply)]
    /\ stages' = stages \cup {"triage"}
    /\ pc' = "aggregate"
    /\ UNCHANGED <<exc, tasks, permits>>
    /\ BatchOthersUnchanged

\* Line 82: gather raises as soon as one task has raised; the other tasks
\* are not cancelled and go on.
GatherRaises ==
    /\ pc = "triage"
    /\ \E i \in 1..Len(tasks) : tasks[i].st = "raised"
    /\ Raise(ConfidenceOverflow)
    /\ UNCHANGED <<triaged, stages, tasks, permits>>
    /\ BatchOthersUnchanged

\* What llm_client.generate may do in a batch.
BatchReplies ==
    FailedReplies
    \cup {Returned(JsonText(d)) : d \in {DataOf(r) : r \in {x \in LLMResponses : x.parsed}}
                                      \cup {OverflowData}}

InitBatch ==
    /\ pc = "triage"
    /\ scan_type = "sast"
    /\ repo_url = "https://github.com/org/repo"
    /\ target_url = None
    /\ branch = RequestedBranch
    /\ emitted = <<"scan.updated", "scan.updated", "scan.updated">>
    /\ exc = None
    /\ repo_path = 1
    /\ tmpdirs = {1}
    /\ made = 1
    /\ cleanups = <<>>
    /\ \E n \in 1..MaxBatch :
        /\ raw_findings \in [1..n -> RawFindings]
        /\ contexts \in [1..n -> {[is_test_file |-> FALSE, is_generated |-> FALSE]}]
        /\ scan = [status |-> "analyzing", branch |-> RequestedBranch,
                   total_findings |-> n, filtered_findings |-> 0,
                   dast_findings |-> 0, error_message |-> None]
    /\ triaged = <<>>
    /\ dast_findings = <<>>
    /\ dependency_findings = <<>>
    /\ unmatched_dast = <<>>
    /\ session = [pending |-> <<>>, committed |-> <<>>]
    /\ tools = [dast |-> "not run", dep |-> "not run"]
    /\ stages = {"acquisition", "static"}
    /\ git = GitLog("ok", None, "ok", RequestedBranch)
    /\ tasks = <<>>
    /\ permits = max_concurrency
    /\ index = EmptyIndex
    /\ calls = <<>>
    /\ health = NotEvaluated

NextBatch ==
    \/ CreateTasks
    \/ \E i \in 1..MaxBatch : SemaphoreAcquire(i)
    \/ \E i \in 1..MaxBatch : \E reply \in BatchReplies : CallLLMExit(i, reply)
    \/ GatherReturns
    \/ GatherRaises

SpecBatch == InitBatch /\ [][NextBatch]_vars

\* The tasks whose llm_client.generate call is in flight.
InFlight == {i \in 1..Len(tasks) : tasks[i].st = "calling"}

\* C16: at every moment of triage_batch at most max_concurrency generate
\* calls are in flight, under every interleaving of the tasks and whether
\* calls return, raise or time out; every call that has ended has given its
\* slot back, so the free slots are exactly those not held by a call in flight.
C16_AtMostMaxConcurrencyInFlight ==
    /\ Cardinality(InFlight) <= max_concurrency
    /\ permits = max_concurrency - Cardinality(InFlight)

C16_Witness ==
    /\ Cardinality(InFlight) = max_concurrency
    /\ permits = 0
    /\ \E i \in 1..Len(tasks) : tasks[i].st = "waiting"
    /\ \E i \in 1..Len(tasks) :
        /\ tasks[i].st = "done"
        /\ tasks[i].reply.outcome \in {"raised", "timeout"}

(***************************************************************************)
(* Correlation on findings that meet the two criteria of _find_match in    *)
(* every combination: by CWE id only, by keyword group only, by both, by   *)
(* none, in every order of the dynamic findings.                           *)
(***************************************************************************)

\* Static findings: keyword only (sql), keyword and CWE-79 (xss), CWE-352
\* only, neither.
CorrelateRawFindings ==
    ScoreRawFindings \cup
    { [rule_id |-> "rules.state-changing-get", rule_message |-> {"CWE-352"},
       severity |-> "WARNING", file_path |-> "app/views.py"],
      [rule_id |-> "rules.hardcoded-secret", rule_message |-> {},
       severity |-> "ERROR", file_path |-> "app/settings.py"] }

\* Dynamic findings: the two of DastTemplates (keyword sql with CWE-89,
\* keyword xss without a CWE), one with CWE ids only, one with nothing to
\* match on; a template without info.name is named by its id.
CorrelateTemplates ==
    DastTemplates \cup
    { [template_id |-> "generic-detect", template_name |-> {"generic-detect"},
       severity |-> "medium", description |-> {}, cwe_ids |-> <<"cwe-79", "CWE-352">>],
      [template_id |-> "tech-detect", template_name |-> {"tech-detect"},
       severity |-> "info", description |-> {}, cwe_ids |-> <<>>] }

InitCorrelate ==
    /\ pc = "correlate"
    /\ scan_type = "both"
    /\ repo_url = "https://github.com/org/repo"
    /\ target_url = "https://example.com"
    /\ branch = RequestedBranch
    /\ emitted = <<"scan.updated", "scan.updated", "scan.updated",
                   "scan.updated", "scan.updated">>
    /\ exc = None
    /\ repo_path = 1
    /\ tmpdirs = {1}
    /\ made = 1
    /\ cleanups = <<>>
    /\ unmatched_dast = <<>>
    /\ session = [pending |-> <<>>, committed |-> <<>>]
    /\ tools = [dast |-> "ok", dep |-> "ok"]
    /\ stages = {"acquisition", "static", "triage", "dependency", "dynamic"}
    /\ git = GitLog("ok", None, "ok", RequestedBranch)
    /\ permits = max_concurrency
    /\ index = EmptyIndex
    /\ calls = <<>>
    /\ health = NotEvaluated
    /\ \E raw \in SeqsUpTo(CorrelateRawFindings, MaxCorrelate) :
        /\ raw_findings = raw
        /\ contexts = [i \in 1..Len(raw) |-> extract(raw[i])]
        /\ \E replies \in [1..Len(raw) -> LLMReplies \ {Returned(JsonText(OverflowData))}] :
            /\ tasks = [i \in 1..Len(raw) |-> [st |-> "done", reply |-> replies[i]]]
            /\ triaged = process([i \in 1..Len(raw) |->
                                     triage_reply(raw[i], contexts[i], replies[i])],
                                 {})
    /\ \E ts \in SeqsUpTo(CorrelateTemplates, MaxDast) :
        dast_findings = [j \in 1..Len(ts) |-> DynamicFinding(ts[j], j)]
    /\ dependency_findings = <<>>
    /\ scan = [status |-> "analyzing", branch |-> RequestedBranch,
               total_findings |-> Len(raw_findings), filtered_findings |-> 0,
               dast_findings |-> Len(dast_findings), error_message |-> None]

SpecCorrelate == InitCorrelate /\ [][NextScore]_vars

\* The static finding's extracted CWE id is among the cwe_ids of d.
SharesCwe(s, d) ==
    LET of_id == _extract_cwe({s.rule_id})
        sast_cwe == IF of_id # None THEN of_id ELSE _extract_cwe(s.rule_message)
    IN /\ sast_cwe # None
       /\ \E k \in 1..Len(d.cwe_ids) : Lower(d.cwe_ids[k]) = sast_cwe

\* Both texts contain a keyword of the same synonym group.
SharesKeywordGroup(s, d) ==
    \E group \in KeywordGroups :
        /\ AnyTermIn(group, TextLower({s.rule_id} \cup s.rule_message))
        /\ AnyTermIn(group, TextLower({d.template_id} \cup d.template_name
                                      \cup d.description))

Satisfies(s, d) == SharesCwe(s, d) \/ SharesKeywordGroup(s, d)

\* C17: the step of correlate_findings leaves every static finding that some
\* dynamic finding satisfies with confirmed_exploitable true,
\* is_false_positive false, the confidence raised by 0.2 and capped at 1.0,
\* and the six dast_* fields of a dynamic finding d that satisfies it, by a
\* shared CWE id or by a keyword group alone; d is not in the unmatched list.
C17_MatchEffects ==
    [][ (pc = "correlate" /\ pc' = "add_static") =>
        \A i \in 1..Len(triaged) :
            (\E j \in 1..Len(dast_findings) : Satisfies(triaged[i], dast_findings[j]))
            => \E j \in 1..Len(dast_findings) :
                LET d == dast_findings[j]
                IN /\ Satisfies(triaged[i], d)
                   /\ triaged'[i].confirmed_exploitable
                   /\ ~triaged'[i].is_false_positive
                   /\ triaged'[i].ai_confidence = Min(100, triaged[i].ai_confidence + 20)
                   /\ triaged'[i].dast_matched_at = d.matched_at
                   /\ triaged'[i].dast_endpoint = d.endpoint
                   /\ triaged'[i].dast_curl_command = d.curl_command
                   /\ triaged'[i].dast_evidence = d.evidence
                   /\ triaged'[i].dast_cve_ids = d.cve_ids
                   /\ triaged'[i].dast_cwe_ids = d.cwe_ids
                   /\ \A k \in 1..Len(unmatched_dast') : unmatched_dast'[k] # d
      ]_vars

\* A finding triage called a false positive with confidence 0.9, matched by
\* keyword group alone.
C17_Witness ==
    /\ Correlated
    /\ pc = "add_static"
    /\ Len(dast_findings) >= 1
    /\ \E i \in 1..Len(triaged) :
        /\ TriageOutput(i).is_false_positive
        /\ TriageOutput(i).ai_confidence = 90
        /\ ~SharesCwe(triaged[i], dast_findings[1])
        /\ SharesKeywordGroup(triaged[i], dast_findings[1])
        /\ triaged[i].confirmed_exploitable
        /\ ~triaged[i].is_false_positive
        /\ triaged[i].ai_confidence = 100
        /\ triaged[i].dast_matched_at = dast_findings[1].matched_at
        /\ \A k \in 1..Len(unmatched_dast) : unmatched_dast[k] # dast_findings[1]

\* Positions in dast_findings of the dynamic findings that satisfy a
\* criterion for the static finding s.
SatisfyingPositions(s) ==
    {j \in 1..Len(dast_findings) : Satisfies(s, dast_findings[j])}

\* C18: once correlate_findings has returned, every static finding carries
\* the evidence of the first dynamic finding, in the order of dast_findings,
\* that satisfies one of the two criteria, whichever criterion it is; it
\* carries none only when no dynamic finding satisfies any.
C18_FirstSatisfyingWins ==
    Correlated =>
        \A i \in 1..Len(triaged) :
            IF SatisfyingPositions(triaged[i]) = {}
            THEN /\ ~triaged[i].confirmed_exploitable
                 /\ triaged[i].dast_matched_at = None
            ELSE \E j \in SatisfyingPositions(triaged[i]) :
                    /\ \A k \in SatisfyingPositions(triaged[i]) : j <= k
                    /\ triaged[i].confirmed_exploitable
                    /\ triaged[i].dast_matched_at = dast_findings[j].matched_at

\* The first dynamic finding satisfies by keyword only, the second by CWE id.
C18_Witness ==
    /\ Correlated
    /\ Len(dast_findings) = 2
    /\ Len(triaged) = 1
    /\ ~SharesCwe(triaged[1], dast_findings[1])
    /\ SharesKeywordGroup(triaged[1], dast_findings[1])
    /\ SharesCwe(triaged[1], dast_findings[2])
    /\ triaged[1].dast_matched_at = dast_findings[1].matched_at

\* RepoFetcher.clone found the requested branch missing and the remote named
\* a default branch other than it.
FellBackToDefaultBranch ==
    /\ git.first = "branch_missing"
    /\ git.default_branch \notin {None, "not run", RequestedBranch}

\* C19: when the requested branch is missing and the remote has a default
\* branch, clone does not raise and returns the default branch, whatever
\* its internal steps answer: acquisition is passed with the default branch.
C19_MissingBranchNeverRaises ==
    FellBackToDefaultBranch =>
        /\ "acquisition" \in stages
        /\ branch = git.default_branch
        /\ exc # "Failed to clone repo"

\* C20: once clone has returned a resolved branch other than the requested
\* one, the persisted Scan.branch is the resolved branch, in the state where
\* the status becomes scanning and in every later state of the run, whether
\* it ends completed or failed.
C20_PersistedBranchIsResolved ==
    (FellBackToDefaultBranch /\ git.second = "ok") =>
        /\ scan.branch = git.default_branch
        /\ scan.branch # RequestedBranch

C20_Witness ==
    /\ pc = "done"
    /\ FellBackToDefaultBranch
    /\ git.second = "ok"
    /\ scan.status = "failed"
    /\ "static" \in stages
    /\ scan.branch = "main"

\* A run of scan_type dast with a target URL.
DastOnlyRun == scan_type = "dast" /\ target_url # None

\* Neither clone, nor the static scanner, triage or the dependency-CVE
\* scanner has been called, and the status is not cloning.
StaticPhaseSkipped ==
    /\ scan.status # "cloning"
    /\ git = GitNotRun
    /\ repo_path = 0
    /\ stages \cap {"acquisition", "static", "triage", "dependency"} = {}
    /\ raw_findings = <<>>
    /\ tasks = <<>>
    /\ tools.dep = "not run"

\* The steps of the status sequence pending, scanning, analyzing, then
\* completed or failed; a run may fail from any status that is not final.
DastOnlyStatusSteps ==
    { <<"pending", "scanning">>, <<"scanning", "analyzing">>,
      <<"analyzing", "completed">>, <<"pending", "failed">>,
      <<"scanning", "failed">>, <<"analyzing", "failed">> }

\* C21: a DAST-only run with a target URL never persists cloning and never
\* calls acquisition, the static scanner, triage or the dependency-CVE
\* scanner; its persisted status goes pending, scanning, analyzing, then
\* completed or failed.
C21_DastOnlySequence ==
    [][ DastOnlyRun =>
            /\ StaticPhaseSkipped'
            /\ \/ scan'.status = scan.status
               \/ <<scan.status, scan'.status>> \in DastOnlyStatusSteps
      ]_vars

\* The part of C21 that does not depend on how the run ends.
DastOnlySkipsStaticPhase == DastOnlyRun => StaticPhaseSkipped

(***************************************************************************)
(* FindingAggregator.process step by step (finding_aggregator.py:20-78)    *)
(* against the similarity index.  Two process calls on the same input,     *)
(* one per scan or one after the other, share the index; each await of     *)
(* asyncio.to_thread lets the other call run.                              *)
(***************************************************************************)

\* The two process calls.
Callers == {1, 2}

\* Line 53: the text a finding is deduplicated on.  TriagedFinding records
\* carry no code_snippet here: findings of one rule have one snippet.
DedupText(finding) == <<finding.rule_id, finding.rule_message>>

\* find_similar_patterns returns a match of score >= duplicate_threshold
\* exactly when the text has been stored (equal texts embed equally).
HasDuplicate(idx, text) == text \in idx.patterns

\* Mutant of SortedByPriority: ascending order.
SortedAscending(items) ==
    LET ahead(i) == {j \in 1..Len(items) :
                        \/ items[j].priority_score < items[i].priority_score
                        \/ /\ items[j].priority_score = items[i].priority_score
                           /\ j < i}
    IN [k \in 1..Len(items) |->
            items[CHOOSE i \in 1..Len(items) : Cardinality(ahead(i)) = k - 1]]

\* Lines 26-30: sorted(deduped, key=priority_score or 0, reverse=True); the
\* sort is stable: an item comes after those of a higher score and after
\* the earlier items of its own score.
SortedByPriority(items) ==
    LET ahead(i) == {j \in 1..Len(items) :
                        \/ items[j].priority_score > items[i].priority_score
                        \/ /\ items[j].priority_score = items[i].priority_score
                           /\ j < i}
    IN [k \in 1..Len(items) |->
            items[CHOOSE i \in 1..Len(items) : Cardinality(ahead(i)) = k - 1]]

\* Positions of the input that _filter_false_positives keeps, in order.
FilteredPositions(findings) ==
    SelectSeq([i \in 1..Len(findings) |-> i],
              LAMBDA i : ~findings[i].is_false_positive)

IdleCall(findings) ==
    [findings |-> findings, filtered |-> <<>>, pos |-> 0, phase |-> "idle",
     unique |-> <<>>, log |-> <<>>, result |-> <<>>, after |-> FALSE]

\* The finding the loop of _deduplicate is at.
CurrentFinding(call) == call.findings[call.filtered[call.pos]]

\* The loop moves to the next finding, or _deduplicate returns.
NextFinding(call, kept, outcome) ==
    [call EXCEPT
        !.unique = IF kept THEN Append(call.unique, call.filtered[call.pos])
                   ELSE call.unique,
        !.log = Append(call.log, outcome),
        !.pos = call.pos + 1,
        !.phase = IF call.pos + 1 > Len(call.filtered) THEN "return" ELSE "query"]

AggregateOthersUnchanged ==
    UNCHANGED <<pc, scan_type, repo_url, target_url, branch, scan, emitted, exc,
                repo_path, tmpdirs, made, cleanups, raw_findings, contexts,
                triaged, dast_findings, dependency_findings, unmatched_dast,
                session, tools, stages, git, tasks, permits, health>>

\* Lines 21-23 and 47-50: process is called; without a PineconeService
\* _deduplicate returns the filtered list at once.
ProcessBegin(c) ==
    /\ calls # <<>>
    /\ calls[c].phase = "idle"
    /\ LET filtered == FilteredPositions(calls[c].findings)
       IN calls' = [calls EXCEPT ![c] =
            [calls[c] EXCEPT
                !.filtered = filtered,
                !.pos = 1,
                !.after = \A d \in Callers \ {c} : calls[d].phase = "done",
                !.unique = IF index.service THEN <<>> ELSE filtered,
                !.phase = IF index.service /\ filtered # <<>>
                          THEN "query" ELSE "return"]]
    /\ UNCHANGED index
    /\ AggregateOthersUnchanged

\* Mutant of QueryPatterns: a finding whose query raised is dropped.
QueryPatternsDropsOnError(c, raises) ==
    /\ calls # <<>>
    /\ calls[c].phase = "query"
    /\ calls' = [calls EXCEPT ![c] =
            IF raises THEN NextFinding(calls[c], FALSE, "query_raised")
            ELSE IF HasDuplicate(index, DedupText(CurrentFinding(calls[c])))
            THEN NextFinding(calls[c], FALSE, "duplicate")
            ELSE [calls[c] EXCEPT !.phase = "upsert"]]
    /\ UNCHANGED index
    /\ AggregateOthersUnchanged

\* Lines 54-63: find_similar_patterns raises (the finding is kept), finds a
\* duplicate (it is dropped) or finds none (the upsert follows).
QueryPatterns(c, raises) ==
    /\ calls # <<>>
    /\ calls[c].phase = "query"
    /\ calls' = [calls EXCEPT ![c] =
            IF raises THEN NextFinding(calls[c], TRUE, "query_raised")
            ELSE IF HasDuplicate(index, DedupText(CurrentFinding(calls[c])))
            THEN NextFinding(calls[c], FALSE, "duplicate")
            ELSE [calls[c] EXCEPT !.phase = "upsert"]]
    /\ UNCHANGED index
    /\ AggregateOthersUnchanged

\* Mutant of UpsertPattern: every pattern is stored under one id, so an
\* upsert replaces what the index held.
UpsertPatternFixedId(c, raises) ==
    /\ calls # <<>>
    /\ calls[c].phase = "upsert"
    /\ index' = IF raises THEN index
                ELSE [index EXCEPT !.patterns = {DedupText(CurrentFinding(calls[c]))}]
    /\ calls' = [calls EXCEPT ![c] =
            NextFinding(calls[c], TRUE,
                        IF raises THEN "upsert_raised" ELSE "upserted")]
    /\ AggregateOthersUnchanged

\* Lines 65-76: upsert_pattern under a fresh uuid stores the text or raises;
\* the finding is kept either way.
UpsertPattern(c, raises) ==
    /\ calls # <<>>
    /\ calls[c].phase = "upsert"
    /\ index' = IF raises THEN index
                ELSE [index EXCEPT !.patterns = @ \cup {DedupText(CurrentFinding(calls[c]))}]
    /\ calls' = [calls EXCEPT ![c] =
            NextFinding(calls[c], TRUE,
                        IF raises THEN "upsert_raised" ELSE "upserted")]
    /\ AggregateOthersUnchanged

\* The findings _deduplicate returned, with the score of lines 24-25.
Scored(call) ==
    [k \in 1..Len(call.unique) |->
        [call.findings[call.unique[k]] EXCEPT
            !.priority_score = calculate_priority(call.findings[call.unique[k]])]]

\* Lines 24-30: the scores are set and the sorted list is returned.
ProcessReturn(c) ==
    /\ calls # <<>>
    /\ calls[c].phase = "return"
    /\ calls' = [calls EXCEPT ![c] =
            [calls[c] EXCEPT !.result = SortedByPriority(Scored(calls[c])),
                             !.phase = "done"]]
    /\ UNCHANGED index
    /\ AggregateOthersUnchanged

\* Findings handed to process: of two rules, flagged false positive or not.
AggregateFindings ==
    { triage_reply(raw, extract(raw), reply) :
        raw \in ScoreRawFindings,
        reply \in LLMReplies \ {Returned(JsonText(OverflowData))} }

InitAggregate ==
    /\ pc = "aggregate"
    /\ scan_type = "sast"
    /\ repo_url = "https://github.com/org/repo"
    /\ target_url = None
    /\ branch = RequestedBranch
    /\ emitted = <<"scan.updated", "scan.updated", "scan.updated">>
    /\ exc = None
    /\ repo_path = 1
    /\ tmpdirs = {1}
    /\ made = 1
    /\ cleanups = <<>>
    /\ raw_findings = <<>>
    /\ contexts = <<>>
    /\ triaged = <<>>
    /\ dast_findings = <<>>
    /\ dependency_findings = <<>>
    /\ unmatched_dast = <<>>
    /\ session = [pending |-> <<>>, committed |-> <<>>]
    /\ tools = [dast |-> "not run", dep |-> "not run"]
    /\ stages = {"acquisition", "static", "triage"}
    /\ git = GitLog("ok", None, "ok", RequestedBranch)
    /\ tasks = <<>>
    /\ permits = max_concurrency
    /\ scan = [status |-> "analyzing", branch |-> RequestedBranch,
               total_findings |-> 0, filtered_findings |-> 0,
               dast_findings |-> 0, error_message |-> None]
    /\ health = NotEvaluated
    /\ \E service \in BOOLEAN, stored \in SUBSET {DedupText(f) : f \in RawFindings} :
        /\ service \/ stored = {}
        /\ index = [service |-> service, patterns |-> stored]
    /\ \E findings \in SeqsUpTo(AggregateFindings, MaxAggregate) :
        calls = [c \in Callers |-> IdleCall(findings)]

NextAggregate ==
    \/ \E c \in Callers : ProcessBegin(c)
    \/ \E c \in Callers : \E raises \in BOOLEAN : QueryPatterns(c, raises)
    \/ \E c \in Callers : \E raises \in BOOLEAN : UpsertPattern(c, raises)
    \/ \E c \in Callers : ProcessReturn(c)

SpecAggregate == InitAggregate /\ [][NextAggregate]_vars

\* The process calls that have returned.
ReturnedCalls == {c \in Callers : calls # <<>> /\ calls[c].phase = "done"}

\* C22: what process returns holds no finding flagged false positive, holds
\* only findings of its input, has a priority_score on every element and
\* is in non-increasing order of priority_score.
C22_ProcessResult ==
    \A c \in ReturnedCalls :
        LET result == calls[c].result
        IN /\ \A k \in 1..Len(result) :
                /\ ~result[k].is_false_positive
                /\ result[k].priority_score \in 0..100
                /\ \E i \in 1..Len(calls[c].findings) :
                        [result[k] EXCEPT !.priority_score = -1]
                            = [calls[c].findings[i] EXCEPT !.priority_score = -1]
           /\ \A k \in 1..Len(result) - 1 :
                result[k].priority_score >= result[k + 1].priority_score

C22_Witness ==
    /\ 1 \in ReturnedCalls
    /\ Len(calls[1].findings) = 2
    /\ calls[1].findings[1].is_false_positive = FALSE
    /\ calls[1].findings[2].is_false_positive = FALSE
    /\ Len(calls[1].result) = 2
    /\ calls[1].result[1].rule_id = calls[1].findings[2].rule_id
    /\ calls[1].result[1].priority_score > calls[1].result[2].priority_score

\* Positions in the filtered list of the findings whose query or upsert
\* raised in the call.
FailedPositions(call) ==
    {k \in 1..Len(call.log) : call.log[k] \in {"query_raised", "upsert_raised"}}

\* C23: a finding whose index query raised, or whose upsert raised after a
\* query below the threshold, is kept; process does not raise, goes on with
\* the remaining findings and returns the kept ones.
C23_IndexFailuresAbsorbed ==
    \A c \in Callers :
        (calls # <<>> /\ index.service) =>
            LET call == calls[c]
            IN /\ call.phase \in {"idle", "query", "upsert", "return", "done"}
               /\ \A k \in FailedPositions(call) :
                    \E u \in 1..Len(call.unique) : call.unique[u] = call.filtered[k]
               /\ call.phase = "done" =>
                    /\ Len(call.log) = Len(call.filtered)
                    /\ \A k \in FailedPositions(call) :
                        \E j \in 1..Len(call.result) :
                            [call.result[j] EXCEPT !.priority_score = -1]
                                = [call.findings[call.filtered[k]]
                                        EXCEPT !.priority_score = -1]

C23_Witness ==
    /\ 1 \in ReturnedCalls
    /\ index.service
    /\ calls[1].log = <<"query_raised", "upsert_raised">>
    /\ Len(calls[1].result) = 2

\* Pairs <<first, second>>: the second call began after the first returned
\* and has returned too.
ConsecutiveRuns ==
    {<<c, d>> \in Callers \X Callers :
        /\ c # d
        /\ {c, d} \subseteq ReturnedCalls
        /\ calls[d].after}

RetainedTexts(call) == {DedupText(call.result[k]) : k \in 1..Len(call.result)}

\* C30: when both calls aggregate a finding of the same dedup text against
\* the shared index and no query or upsert fails, at most one of them
\* retains it, however their query and upsert steps interleave.
C30_AtMostOneRetains ==
    (/\ ReturnedCalls = Callers
     /\ index.service
     /\ \A c \in Callers : FailedPositions(calls[c]) = {})
    => \A c \in Callers : \A d \in Callers \ {c} :
            RetainedTexts(calls[c]) \cap RetainedTexts(calls[d]) = {}

\* ------------------------------------------------------------------------
\* The end of a run: terminal status, rows and counters
\* ------------------------------------------------------------------------
TerminalStatuses == {"completed", "failed"}

\* C27: once completed or failed is persisted, no later step of the run
\* changes the scan's status, counters or error_message.
C27_TerminalStatusAbsorbing ==
    [][scan.status \in TerminalStatuses =>
            /\ scan'.status = scan.status
            /\ scan'.total_findings = scan.total_findings
            /\ scan'.filtered_findings = scan.filtered_findings
            /\ scan'.dast_findings = scan.dast_findings
            /\ scan'.error_message = scan.error_message]_vars

\* The rows the run has written with db.add, committed or not yet, of one
\* flavor, in the order of the db.add calls.
WrittenRows(flavor) ==
    SelectSeq(session.committed \o session.pending,
              LAMBDA row : row.flavor = flavor)

\* The static rows have been written and not rolled back.
StaticRowsWritten ==
    \/ pc \in {"add_dast", "add_dependency", "commit"}
    \/ "persistence" \in stages

\* C28: there is one static row per finding triage_batch returned, in the
\* same order, whether process kept the finding or not, and a finding still
\* flagged false positive after correlation is stored with priority_score 0.
C28_EveryTriagedFindingPersisted ==
    StaticRowsWritten =>
        /\ Len(WrittenRows("static")) = Len(triaged)
        /\ Len(triaged) = Len(raw_findings)
        /\ \A i \in 1..Len(triaged) :
            /\ WrittenRows("static")[i].rule_id = triaged[i].rule_id
            /\ WrittenRows("static")[i].is_false_positive
                    = triaged[i].is_false_positive
            /\ triaged[i].is_false_positive
                    => WrittenRows("static")[i].priority_score = 0

\* Two findings committed: one a false positive, one that process dropped
\* as a duplicate (it never got a priority_score from process).
C28_Witness ==
    /\ "persistence" \in stages
    /\ Len(triaged) = 2
    /\ \E i \in 1..2 : \E j \in 1..2 :
        /\ triaged[i].is_false_positive
        /\ ~triaged[j].is_false_positive
        /\ triaged[j].priority_score = -1
    /\ Len(WrittenRows("static")) = 2

\* C29: when the run ends completed, total_findings is the number of rows
\* committed (static, unmatched dynamic, dependency), filtered_findings the
\* number of them not flagged false positive, and dast_findings the number
\* of findings the dynamic scanner returned.
C29_CountersAgreeWithRows ==
    scan.status = "completed" =>
        /\ session.pending = <<>>
        /\ scan.total_findings = Len(session.committed)
        /\ scan.total_findings = Len(WrittenRows("static"))
                + Len(WrittenRows("dynamic")) + Len(WrittenRows("dependency"))
        /\ Len(WrittenRows("dynamic")) = Len(unmatched_dast)
        /\ scan.filtered_findings =
                Cardinality({k \in 1..Len(session.committed) :
                                ~session.committed[k].is_false_positive})
        /\ scan.filtered_findings <= scan.total_findings
        /\ scan.dast_findings = Len(dast_findings)

C29_Witness ==
    /\ scan.status = "completed"
    /\ scan.filtered_findings < scan.total_findings
    /\ Len(WrittenRows("dynamic")) >= 1
    /\ Len(WrittenRows("dependency")) >= 1
    /\ scan.dast_findings >= 1

\* ------------------------------------------------------------------------
\* DependencyHealthScanner (dependency_health_scanner.py): one dependency
\* from its DependencySpec and registry metadata to the finding scan returns
\* ------------------------------------------------------------------------
\* A version text is the sequence of its dot-separated numbers: "1.5.0" is
\* <<1, 5, 0>>, "1" is <<1>>; <<>> stands for None.  No text of the
\* vocabulary has a pre-release or build part.
NoVersion == <<>>
VersionTexts == {<<major, minor, 0>> : major \in 1..MaxMajor, minor \in {0, 5}}

\* The version the registry can flag as deprecated (npm) or yanked (PyPI).
FlaggableVersion == <<1, 0, 0>>

\* Lines 626-646, without a pre-release part: missing minor and patch are 0.
_parse_semver(value) ==
    IF value = NoVersion THEN NoVersion
    ELSE << value[1],
            IF Len(value) > 1 THEN value[2] ELSE 0,
            IF Len(value) > 2 THEN value[3] ELSE 0 >>

\* Tuple comparison of two parsed versions: -1, 0 or 1.
CompareReleases(l, r) ==
    IF l[1] # r[1] THEN (IF l[1] < r[1] THEN -1 ELSE 1)
    ELSE IF l[2] # r[2] THEN (IF l[2] < r[2] THEN -1 ELSE 1)
    ELSE IF l[3] # r[3] THEN (IF l[3] < r[3] THEN -1 ELSE 1)
    ELSE 0

\* Lines 615-624.
_compare_semver(left, right) ==
    IF _parse_semver(left) = NoVersion \/ _parse_semver(right) = NoVersion
    THEN 0
    ELSE CompareReleases(_parse_semver(left), _parse_semver(right))

\* Lines 515-530: packaging's Version order, which pads the release with
\* zeros.
_compare_versions(left, right) ==
    IF left = NoVersion \/ right = NoVersion
    THEN 0
    ELSE CompareReleases(_parse_semver(left), _parse_semver(right))

\* A declared specifier, by its syntax:
\*   none   no specifier            star    "*"
\*   exact  "a" (npm), "==a" (PyPI) caret   "^a"        tilde  "~a"
\*   range  ">=a <b" (npm), ">=a,<b" (PyPI)
\*   or     "^a || ^b"              xrange  "a.x"
Specifier(kind, a, b) == [kind |-> kind, a |-> a, b |-> b]
NoSpecifier == Specifier("none", NoVersion, NoVersion)

NpmSpecifiers ==
    {NoSpecifier, Specifier("star", NoVersion, NoVersion)}
        \cup {Specifier("exact", a, NoVersion) : a \in VersionTexts}
        \cup {Specifier("caret", a, NoVersion) : a \in {<<1, 0, 0>>, <<1, 5, 0>>}}
        \cup {Specifier("tilde", a, NoVersion) : a \in {<<1>>, <<1, 0, 0>>}}
        \cup {Specifier("range", <<1, 0, 0>>, <<2, 0, 0>>),
              Specifier("or", <<1, 0, 0>>, <<2, 0, 0>>),
              Specifier("xrange", <<1>>, NoVersion)}

PypiSpecifiers ==
    {NoSpecifier, Specifier("range", <<1, 0, 0>>, <<2, 0, 0>>)}
        \cup {Specifier("exact", a, NoVersion) : a \in VersionTexts}

\* Lines 492-498: the regex matches a bare version text only.
_extract_exact_npm_version(specifier) ==
    IF specifier.kind = "exact" THEN specifier.a ELSE NoVersion

\* Lines 500-513: one "==" clause without "*".
_extract_exact_pypi_version(specifier) ==
    IF specifier.kind = "exact" THEN specifier.a ELSE NoVersion

\* Lines 593-604.
_upper_bound_from_prefix(base, caret) ==
    LET parsed == _parse_semver(base)
    IN IF parsed = NoVersion THEN NoVersion
       ELSE IF caret
       THEN IF parsed[1] > 0 THEN <<parsed[1] + 1, 0, 0>>
            ELSE IF parsed[2] > 0 THEN <<0, parsed[2] + 1, 0>>
            ELSE <<0, 0, parsed[3] + 1>>
       ELSE <<parsed[1], parsed[2] + 1, 0>>

\* Lines 606-613.
_semver_in_range(value, lower, upper) ==
    IF lower # NoVersion /\ _compare_semver(value, lower) < 0 THEN "False"
    ELSE IF upper # NoVersion /\ _compare_semver(value, upper) >= 0 THEN "False"
    ELSE "True"

\* Lines 542-560: "True", "False" or "None".
_npm_spec_satisfies(specifier, latest) ==
    CASE specifier.kind = "star" -> "True"
      [] specifier.kind = "or" -> "None"
      [] specifier.kind = "exact" ->
            IF _compare_semver(specifier.a, latest) = 0 THEN "True" ELSE "False"
      [] specifier.kind \in {"caret", "tilde"} ->
            _semver_in_range(latest, specifier.a,
                _upper_bound_from_prefix(specifier.a, specifier.kind = "caret"))
      [] specifier.kind = "range" ->
            IF /\ _compare_semver(latest, specifier.a) >= 0
               /\ _compare_semver(latest, specifier.b) < 0
            THEN "True" ELSE "False"
      [] OTHER -> "None"

\* Lines 532-540: `version in SpecifierSet(specifier)`.
_pypi_spec_satisfies(specifier, latest) ==
    CASE specifier.kind = "exact" ->
            IF _compare_versions(latest, specifier.a) = 0 THEN "True" ELSE "False"
      [] specifier.kind = "range" ->
            IF /\ _compare_versions(latest, specifier.a) >= 0
               /\ _compare_versions(latest, specifier.b) < 0
            THEN "True" ELSE "False"
      [] OTHER -> "True"

\* Reason texts (a deprecation message, a yanked_reason); {} is no text.
NoReason == {}
Reasons == {NoReason, {"renamed"}, {"Security", "issue"}}
YankedDefaultReason == {"Release is yanked on PyPI."}
InactiveReason == {"Project marked inactive in PyPI classifiers."}

\* Lines 476-487.
high_keywords ==
    {"security", "vulnerab", "rce", "remote", "exploit", "critical", "eol",
     "end of life", "unsupported", "unmaintained"}

\* Lines 470-490.
_base_severity(status, reason, is_yanked) ==
    IF status = "outdated" THEN "low"
    ELSE IF is_yanked \/ AnyTermIn(high_keywords, TextLower(reason)) THEN "high"
    ELSE "medium"

\* The files of a PyPI release: each has yanked and yanked_reason.
ReleaseFile(yanked, reason) == [yanked |-> yanked, yanked_reason |-> reason]

\* Lines 891-908.
_is_yanked_release(files) ==
    LET reasons == SelectSeq(files, LAMBDA entry : entry.yanked_reason # NoReason)
    IN IF files = <<>> THEN [is_yanked |-> FALSE, reason |-> NoReason]
       ELSE IF \E k \in 1..Len(files) : ~files[k].yanked
       THEN [is_yanked |-> FALSE, reason |-> NoReason]
       ELSE [is_yanked |-> TRUE,
             reason |-> IF reasons # <<>> THEN reasons[1].yanked_reason
                        ELSE YankedDefaultReason]

\* Registry metadata of one package: `present` is FALSE when the fetch gave
\* nothing; latest is dist-tags.latest (npm) or info.version (PyPI);
\* deprecated is versions[FlaggableVersion].deprecated (npm); files is
\* releases[FlaggableVersion] (PyPI); inactive is the classifier
\* "Development Status :: 7 - Inactive".  Every version text of the
\* vocabulary is listed in versions / releases.
NoMeta ==
    [present |-> FALSE, latest |-> NoVersion, deprecated |-> NoReason,
     files |-> <<>>, inactive |-> FALSE]

NpmMetas ==
    {NoMeta} \cup
    {[present |-> TRUE, latest |-> latest, deprecated |-> reason,
      files |-> <<>>, inactive |-> FALSE] :
        latest \in VersionTexts \cup {NoVersion}, reason \in Reasons}

ReleaseFiles ==
    {<<ReleaseFile(FALSE, NoReason)>>,
     <<ReleaseFile(TRUE, NoReason)>>,
     <<ReleaseFile(TRUE, {"renamed"})>>,
     <<ReleaseFile(TRUE, {"Security", "issue"})>>,
     <<ReleaseFile(TRUE, {"renamed"}), ReleaseFile(FALSE, NoReason)>>}

PypiMetas ==
    {NoMeta} \cup
    {[present |-> TRUE, latest |-> latest, deprecated |-> NoReason,
      files |-> files, inactive |-> inactive] :
        latest \in VersionTexts \cup {NoVersion}, files \in ReleaseFiles,
        inactive \in BOOLEAN}

\* versions.get(installed, {}).get("deprecated")
DeprecatedMessage(meta, installed) ==
    IF installed = FlaggableVersion THEN meta.deprecated ELSE NoReason

\* releases.get(installed) or []
FilesOf(meta, installed) ==
    IF installed = FlaggableVersion THEN meta.files
    ELSE <<ReleaseFile(FALSE, NoReason)>>

\* types.py:102-117, the fields the evaluation decides.
HealthFinding(status, installed, latest, reason, is_yanked, severity) ==
    [present |-> TRUE, status |-> status, installed_version |-> installed,
     latest_version |-> latest, deprecation_reason |-> reason,
     is_yanked |-> is_yanked, ai_severity |-> severity]

NoFinding ==
    [present |-> FALSE, status |-> "None", installed_version |-> NoVersion,
     latest_version |-> NoVersion, deprecation_reason |-> NoReason,
     is_yanked |-> FALSE, ai_severity |-> "None"]

\* Lines 179-241.
_evaluate_npm(spec, meta) ==
    LET latest == meta.latest
        installed == IF spec.version # NoVersion THEN spec.version
                     ELSE _extract_exact_npm_version(spec.specifier)
        deprecated_reason ==
            IF installed # NoVersion /\ installed \in VersionTexts
            THEN DeprecatedMessage(meta, installed) ELSE NoReason
        status ==
            IF deprecated_reason # NoReason THEN "deprecated"
            ELSE IF /\ installed # NoVersion
                    /\ latest # NoVersion
                    /\ _compare_semver(installed, latest) < 0
            THEN "outdated"
            ELSE IF /\ spec.specifier.kind # "none"
                    /\ latest # NoVersion
                    /\ _npm_spec_satisfies(spec.specifier, latest) = "False"
            THEN "outdated"
            ELSE "None"
    IN IF ~meta.present \/ status = "None" THEN NoFinding
       ELSE HealthFinding(status, installed, latest, deprecated_reason, FALSE,
                          _base_severity(status, deprecated_reason, FALSE))

\* Lines 243-318.
_evaluate_pypi(spec, meta) ==
    LET latest == meta.latest
        installed == IF spec.version # NoVersion THEN spec.version
                     ELSE _extract_exact_pypi_version(spec.specifier)
        yanked == IF installed # NoVersion /\ installed \in VersionTexts
                  THEN _is_yanked_release(FilesOf(meta, installed))
                  ELSE [is_yanked |-> FALSE, reason |-> NoReason]
        status ==
            IF yanked.is_yanked THEN "deprecated"
            ELSE IF meta.inactive THEN "deprecated"
            ELSE IF /\ installed # NoVersion
                    /\ latest # NoVersion
                    /\ _compare_versions(installed, latest) < 0
            THEN "outdated"
            ELSE IF /\ spec.specifier.kind # "none"
                    /\ latest # NoVersion
                    /\ _pypi_spec_satisfies(spec.specifier, latest) = "False"
            THEN "outdated"
            ELSE "None"
        deprecation_reason ==
            IF ~yanked.is_yanked /\ meta.inactive THEN InactiveReason
            ELSE yanked.reason
    IN IF ~meta.present \/ status = "None" THEN NoFinding
       ELSE HealthFinding(status, installed, latest, deprecation_reason,
                          yanked.is_yanked,
                          _base_severity(status, deprecation_reason,
                                         yanked.is_yanked))

\* Lines 26-34, the fields the evaluation reads.
DependencySpecs ==
    {[ecosystem |-> "npm", specifier |-> specifier, version |-> version] :
        specifier \in NpmSpecifiers, version \in VersionTexts \cup {NoVersion}}
    \cup
    {[ecosystem |-> "pypi", specifier |-> specifier, version |-> version] :
        specifier \in PypiSpecifiers, version \in VersionTexts \cup {NoVersion}}

HealthOthersUnchanged ==
    UNCHANGED <<pc, scan_type, repo_url, target_url, branch, scan, emitted, exc,
                repo_path, tmpdirs, made, cleanups, raw_findings, contexts,
                triaged, dast_findings, dependency_findings, unmatched_dast,
                session, tools, stages, git, tasks, permits, index, calls>>

\* Lines 64-67: an npm dependency.
EvaluateNpm ==
    /\ health.phase = "collected"
    /\ health.spec.ecosystem = "npm"
    /\ health' = [health EXCEPT
            !.finding = _evaluate_npm(health.spec, health.meta),
            !.phase = "evaluated"]
    /\ HealthOthersUnchanged

\* Lines 68-70: a PyPI dependency.
EvaluatePypi ==
    /\ health.phase = "collected"
    /\ health.spec.ecosystem # "npm"
    /\ health' = [health EXCEPT
            !.finding = _evaluate_pypi(health.spec, health.meta),
            !.phase = "evaluated"]
    /\ HealthOthersUnchanged

\* dependency_health_scanner.py:407-411.
health_normalize_ai_severity(value) ==
    IF value \in {"critical", "high", "medium", "low", "info"} THEN value
    ELSE "None"

\* What the model answers as adjusted_severity ("" when the answer has no
\* JSON object or no severity).
HealthReplies == {"", "critical", "low", "unknown"}

\* Lines 74-77 and 320-352 with use_llm set: a deprecated finding takes the
\* severity of the model's answer when it is one of the five levels.
ApplyLlm ==
    /\ health.phase = "evaluated"
    /\ health.use_llm
    /\ \E available \in BOOLEAN, reply \in HealthReplies :
        health' = [health EXCEPT
            !.finding.ai_severity =
                IF /\ available
                   /\ health.finding.present
                   /\ health.finding.status = "deprecated"
                   /\ health_normalize_ai_severity(reply) # "None"
                THEN health_normalize_ai_severity(reply)
                ELSE health.finding.ai_severity,
            !.phase = "returned"]
    /\ HealthOthersUnchanged

\* Lines 74-77 with use_llm not set.
ScanReturn ==
    /\ health.phase = "evaluated"
    /\ ~health.use_llm
    /\ health' = [health EXCEPT !.phase = "returned"]
    /\ HealthOthersUnchanged

InitHealth ==
    /\ pc = "dependency_health"
    /\ scan_type = "sast"
    /\ repo_url = "https://github.com/org/repo"
    /\ target_url = None
    /\ branch = RequestedBranch
    /\ emitted = <<>>
    /\ exc = None
    /\ repo_path = 1
    /\ tmpdirs = {1}
    /\ made = 1
    /\ cleanups = <<>>
    /\ raw_findings = <<>>
    /\ contexts = <<>>
    /\ triaged = <<>>
    /\ dast_findings = <<>>
    /\ dependency_findings = <<>>
    /\ unmatched_dast = <<>>
    /\ session = [pending |-> <<>>, committed |-> <<>>]
    /\ tools = [dast |-> "not run", dep |-> "not run"]
    /\ stages = {}
    /\ git = GitLog("ok", None, "ok", RequestedBranch)
    /\ tasks = <<>>
    /\ permits = max_concurrency
    /\ scan = [status |-> "pending", branch |-> RequestedBranch,
               total_findings |-> 0, filtered_findings |-> 0,
               dast_findings |-> 0, error_message |-> None]
    /\ index = EmptyIndex
    /\ calls = <<>>
    /\ \E spec \in DependencySpecs, use_llm \in BOOLEAN :
        \E meta \in (IF spec.ecosystem = "npm" THEN NpmMetas ELSE PypiMetas) :
            health = [phase |-> "collected", spec |-> spec, meta |-> meta,
                      use_llm |-> use_llm, finding |-> NoFinding]

NextHealth ==
    \/ EvaluateNpm
    \/ EvaluatePypi
    \/ ApplyLlm
    \/ ScanReturn

SpecHealth == InitHealth /\ [][NextHealth]_vars

\* The evaluation of the dependency has produced its result.
Evaluated == health.phase = "evaluated"

\* C25: the heuristic gives low to outdated, and to deprecated (yanked
\* releases included) high exactly when the reason text holds one of the
\* keywords and medium otherwise.
C25_SeverityHeuristic ==
    (Evaluated /\ health.finding.present) =>
        health.finding.ai_severity =
            IF health.finding.status = "outdated" THEN "low"
            ELSE IF AnyTermIn(high_keywords,
                              TextLower(health.finding.deprecation_reason))
            THEN "high"
            ELSE "medium"

\* What the declared ranges mean: latest satisfies the specifier.
InHalfOpen(latest, lower, upper) ==
    /\ CompareReleases(_parse_semver(latest), _parse_semver(lower)) >= 0
    /\ CompareReleases(_parse_semver(latest), upper) < 0

LatestSatisfies(specifier, latest) ==
    LET a == _parse_semver(specifier.a)
    IN CASE specifier.kind \in {"none", "star"} -> TRUE
         [] specifier.kind = "exact" ->
                CompareReleases(_parse_semver(latest), a) = 0
         [] specifier.kind = "caret" ->
                InHalfOpen(latest, specifier.a, <<a[1] + 1, 0, 0>>)
         [] specifier.kind = "tilde" ->
                InHalfOpen(latest, specifier.a,
                           IF Len(specifier.a) = 1 THEN <<a[1] + 1, 0, 0>>
                           ELSE <<a[1], a[2] + 1, 0>>)
         [] specifier.kind = "range" ->
                InHalfOpen(latest, specifier.a, _parse_semver(specifier.b))
         [] specifier.kind = "or" ->
                \/ InHalfOpen(latest, specifier.a, <<a[1] + 1, 0, 0>>)
                \/ InHalfOpen(latest, specifier.b,
                              <<_parse_semver(specifier.b)[1] + 1, 0, 0>>)
         [] specifier.kind = "xrange" ->
                InHalfOpen(latest, specifier.a, <<a[1] + 1, 0, 0>>)

\* The installed version: the locked one, else the one an exact specifier
\* names.
InstalledVersion(spec) ==
    IF spec.version # NoVersion THEN spec.version
    ELSE IF spec.specifier.kind = "exact" THEN spec.specifier.a
    ELSE NoVersion

\* The status the priority order gives: deprecated for a deprecated or
\* yanked installed release, else deprecated for an inactive PyPI package,
\* else outdated when installed is older than latest or latest does not
\* satisfy the specifier, else none; none without metadata.
StatusByPriorityOrder(spec, meta) ==
    LET installed == InstalledVersion(spec)
        flagged ==
            /\ installed = FlaggableVersion
            /\ IF spec.ecosystem = "npm" THEN meta.deprecated # NoReason
               ELSE /\ meta.files # <<>>
                    /\ \A k \in 1..Len(meta.files) : meta.files[k].yanked
        older ==
            /\ installed # NoVersion
            /\ CompareReleases(_parse_semver(installed),
                               _parse_semver(meta.latest)) < 0
    IN IF ~meta.present THEN "None"
       ELSE IF flagged THEN "deprecated"
       ELSE IF spec.ecosystem # "npm" /\ meta.inactive THEN "deprecated"
       ELSE IF meta.latest # NoVersion
               /\ (older \/ ~LatestSatisfies(spec.specifier, meta.latest))
       THEN "outdated"
       ELSE "None"

\* C26: the evaluation follows the priority order, and a dependency
\* without metadata gives no finding.
C26_PriorityOrder ==
    health.phase \in {"evaluated", "returned"} =>
        /\ health.finding.status = StatusByPriorityOrder(health.spec, health.meta)
        /\ health.finding.present <=> health.finding.status # "None"

====
